---- MODULE Spec2Model ----
(***************************************************************************)
(* Sensor-telemetry load generator (a-service): the runtime-reconfigurable *)
(* periodic emitter of usecase/generator.go and its HTTP router.           *)
(*                                                                         *)
(* Durations and instants are integers in milliseconds.  A channel made by *)
(* make(chan struct{}) is the number of the make call that created it (0   *)
(* is the nil channel); the goroutine launched by the k-th successful      *)
(* Start is loop k, and the channel that Start made is channel k.          *)
(*                                                                         *)
(* The environment (the runtime's timers and the wall clock) is modelled   *)
(* in two ways, chosen by the variable timed, which never changes:         *)
(*   untimed: a ticker may fire at any moment, so every relative timing of *)
(*            tickers, loops and callers is a behaviour;                   *)
(*   timed:   a ticker fires exactly every period of the wall clock and    *)
(*            goroutines take their steps without letting time pass.       *)
(*                                                                         *)
(* Spec is the emitter under two concurrent clients of Start, Stop and     *)
(* SetFrequency; SpecTimed the same on the timed environment; SpecOps one  *)
(* client calling every operation, SpamRequests bursts included.           *)
(***************************************************************************)
EXTENDS Integers, Sequences, FiniteSets, TLC

\* ------------------------------------------------------------------ bounds
NumCallers == 2      \* concurrent HTTP handler goroutines
MaxStarts == 2       \* successful Start() calls in one run
MaxCalls == 2        \* ReadingSink calls made by the emission loops in one run
MaxTimedSteps == 30  \* timed: the wall clock runs for this many steps
MaxTotal == 1        \* burst: the largest total of a request
MaxConcurrency == 2  \* burst: the largest concurrency of a request
NumPorts == 3        \* fleet: the number of ports the tool addresses
MaxLatencies == 5    \* spam_unary: the most latencies recorded in one run
MaxDuration == 4     \* spam_unary: the longest call, in milliseconds
ToolMaxTotal == 3    \* spam_unary: the largest -n of a run
ToolMaxConcurrency == 2  \* spam_unary: the largest -c of a run

Callers == 1..NumCallers
Loops == 1..MaxStarts

\* ------------------------------------------------------- program constants
ZeroTime == -1           \* the zero time.Time: startTime before any Start
NilChan == 0             \* the nil channel: stopChan before any Start
DefaultFrequency == 1000 \* time.Second
NoOne == 0               \* mu is not write-locked

\* ---------------------------------------------------------------- state
VARIABLES
  isRunning,    \* dg.isRunning
  stopChan,     \* dg.stopChan
  frequency,    \* dg.frequency
  startTime,    \* dg.startTime
  payload,      \* dg.sensorValue, dg.sensorType, dg.id1, dg.id2
  totalSent,    \* dg.totalSent
  totalFailed,  \* dg.totalFailed
  mu,           \* dg.mu: the caller holding the write lock, or NoOne
  nchan,        \* number of channels made so far
  closed,       \* the channels that have been closed
  crashed,      \* a goroutine panicked: the process is gone
  pc,           \* pc[c]: where handler goroutine c is
  ret,          \* ret[c]: what c's Start()/Stop() returned, "none" otherwise
  loops,        \* loops[l]: the goroutine running generateContinuously
  hist,         \* history: number of Start() and Stop() calls that returned true
  now,          \* the wall clock
  timed,        \* which environment is modelled
  nextFire,     \* timed: when loop l's ticker fires next
  trace,        \* timed: when the first ticks were received, and the first
                \* SetFrequency call
  burst,        \* the SpamRequests call in progress: its job queue, its
                \* workers and its local counters
  fleet,        \* the fleet tool's run in progress: one goroutine per port,
                \* the collected stats responses and what it printed
  tool          \* the spam_unary tool: its latencies slice and the
                \* percentile it computed last

dgVars == <<isRunning, stopChan, frequency, startTime, payload, totalSent, totalFailed>>
rtVars == <<mu, nchan, closed, crashed>>
callVars == <<pc, ret>>
envVars == <<now, timed, nextFire, trace>>
vars == <<dgVars, rtVars, callVars, loops, hist, envVars, burst, fleet, tool>>

\* ------------------------------------------------------------ NewDataGenerator
DefaultPayload == [value |-> 10, type |-> "TEMP", id1 |-> "ABCDEFGH", id2 |-> 1]

\* A goroutine of generateContinuously: where it is, the period of its ticker
\* (0: no ticker), whether a tick is buffered in ticker.C, its local
\* currentFreq, the channel its select waits on, the err of the call that
\* just returned, (history) whether it has taken a tick while the channel
\* its own Start made was already closed, and the fields of the
\* pb.SensorReading it is building (read: how many fields are set) or has
\* sent.
NoReading == [read |-> 0, value |-> 0, type |-> "", id1 |-> "", id2 |-> 0]

NoLoop == [pc |-> "none", ticker |-> 0, tick |-> FALSE, currentFreq |-> 0,
           waitChan |-> NilChan, err |-> "none", late |-> FALSE,
           reading |-> NoReading]

\* What a handler holds for its response: nothing yet, the boolean of Start
\* or Stop ([ok |-> b]), or the map of GetDetailedStats or SpamRequests.
NoReturn == [none |-> TRUE]

\* No SpamRequests call is in progress.
NoBurst == [pc |-> "none", owner |-> NoOne, total |-> 0, concurrency |-> 0,
            cap |-> 0, jobs |-> 0, idle |-> 0, busy |-> 0, calls |-> 0,
            ok |-> 0, fail |-> 0]

\* float64(n) / d of Go: a division by zero is no fault, it yields NaN
\* (0/0) or +Inf; a finite quotient is kept as the fraction n/d.
FloatDiv(n, d) ==
  IF d = 0 THEN [class |-> IF n = 0 THEN "NaN" ELSE "+Inf", num |-> n, den |-> d]
           ELSE [class |-> "finite", num |-> n, den |-> d]

\* ------------------------------------------------------------ fleet tool
\* The ports the fleet tool addresses: startPort..endPort of the source are
\* 9000..9009; the model numbers them 1..NumPorts.
Ports == 1..NumPorts

\* StatsResponse.Data: the fields of one endpoint's stats.
ZeroSample == [ConfiguredFreqMs |-> 0, IsRunning |-> FALSE, OverallRPS |-> 0,
               TotalFailed |-> 0, TotalRequests |-> 0, TotalSent |-> 0,
               UptimeSeconds |-> 0]

\* The stats bodies an endpoint may answer with. encoding/json accepts any
\* number for a float64 field, negative ones included.
Samples ==
  { [ConfiguredFreqMs |-> 1000, IsRunning |-> TRUE, OverallRPS |-> 2,
     TotalFailed |-> 1, TotalRequests |-> 11, TotalSent |-> 10,
     UptimeSeconds |-> 5],
    [ConfiguredFreqMs |-> 500, IsRunning |-> TRUE, OverallRPS |-> 4,
     TotalFailed |-> 2, TotalRequests |-> 22, TotalSent |-> 20,
     UptimeSeconds |-> 5],
    [ConfiguredFreqMs |-> 1000, IsRunning |-> FALSE, OverallRPS |-> 1,
     TotalFailed |-> 3, TotalRequests |-> 33, TotalSent |-> 30,
     UptimeSeconds |-> 60],
    [ConfiguredFreqMs |-> -1, IsRunning |-> FALSE, OverallRPS |-> -2,
     TotalFailed |-> -3, TotalRequests |-> -7, TotalSent |-> -4,
     UptimeSeconds |-> -1],
    [ConfiguredFreqMs |-> -2, IsRunning |-> TRUE, OverallRPS |-> -1,
     TotalFailed |-> -1, TotalRequests |-> -3, TotalSent |-> -2,
     UptimeSeconds |-> -5] }

\* The six float64 metrics of AggregatedStats, and the five of them whose
\* struct carries a Total field (ConfiguredFreqMs has Min, Max and Avg only).
Metrics == {"ConfiguredFreqMs", "OverallRPS", "TotalFailed", "TotalRequests",
            "TotalSent", "UptimeSeconds"}

Totalled == Metrics \ {"ConfiguredFreqMs"}

\* The float64 zero, in the representation of FloatDiv.
FloatZero == [class |-> "finite", num |-> 0, den |-> 1]

\* var agg AggregatedStats: every field is zero.
ZeroAggregate ==
  [m \in Metrics |->
     IF m \in Totalled
       THEN [Min |-> 0, Max |-> 0, Avg |-> FloatZero, Total |-> 0]
       ELSE [Min |-> 0, Max |-> 0, Avg |-> FloatZero]]
  @@ ("IsRunning" :> [Running |-> 0, Total |-> 0])

\* (a variant that leaves Min and Max at the zero of the struct)
SeedZero(agg, first) == agg

\* Initialize min/max with first response values
Seed(agg, first) ==
  [m \in Metrics |-> [agg[m] EXCEPT !.Min = first[m], !.Max = first[m]]]
  @@ ("IsRunning" :> agg["IsRunning"])

\* One iteration of `for _, resp := range responses`: per metric the min and
\* max comparisons, Avg += v and (where the struct has it) Total += v; then
\* the IsRunning counts.
AddResponse(agg, data) ==
  [m \in Metrics |->
     LET a == agg[m]
         v == data[m]
         lo == IF v < a.Min THEN v ELSE a.Min
         hi == IF v > a.Max THEN v ELSE a.Max
         sum == [a.Avg EXCEPT !.num = @ + v]
     IN  IF m \in Totalled
           THEN [Min |-> lo, Max |-> hi, Avg |-> sum, Total |-> a.Total + v]
           ELSE [Min |-> lo, Max |-> hi, Avg |-> sum]]
  @@ ("IsRunning" :>
        [Running |-> agg["IsRunning"].Running + (IF data.IsRunning THEN 1 ELSE 0),
         Total |-> agg["IsRunning"].Total + 1])

RECURSIVE Accumulate(_, _, _)
Accumulate(agg, responses, i) ==
  IF i > Len(responses) THEN agg
  ELSE Accumulate(AddResponse(agg, responses[i]), responses, i + 1)

\* (a variant that divides by the number of ports asked)
AverageOverPorts(sum, count) == FloatDiv(sum.num, NumPorts)

\* agg.X.Avg /= float64(count)
Average(sum, count) == FloatDiv(sum.num, sum.den * count)

\* Calculate averages
Averages(agg, count) ==
  [m \in Metrics |-> [agg[m] EXCEPT !.Avg = Average(@, count)]]
  @@ ("IsRunning" :> agg["IsRunning"])

aggregateStats(responses) ==
  IF Len(responses) = 0 THEN ZeroAggregate
  ELSE Averages(Accumulate(Seed(ZeroAggregate, responses[1].Data), 
                           [i \in 1..Len(responses) |-> responses[i].Data], 1),
                Len(responses))

\* ------------------------------------------------------------ float64
\* The samples above are whole numbers far below 2^53: float64 holds them and
\* their sums exactly, and the integers of the folds above are those sums.
\* A metric decoded from JSON may be any float64. A whole number x >= 0 too
\* large for that is kept as [hi, lo], x = hi * Limb + lo with lo < Limb.
Limb == 2^28

\* The bits of the significand of a float64.
Float64Precision == 53

RECURSIVE BitLen(_)
BitLen(n) == IF n = 0 THEN 0 ELSE 1 + BitLen(n \div 2)

Float64Zero == [hi |-> 0, lo |-> 0]

\* a < b of two float64
Float64Less(a, b) == a.hi < b.hi \/ (a.hi = b.hi /\ a.lo < b.lo)

\* a + b of two float64: the exact sum, rounded to the nearest number of 53
\* significant bits, a tie to the one whose last bit is 0.
Float64Add(a, b) ==
  LET lo == a.lo + b.lo
      x == [hi |-> a.hi + b.hi + lo \div Limb, lo |-> lo % Limb]
      len == IF x.hi = 0 THEN BitLen(x.lo) ELSE BitLen(x.hi) + BitLen(Limb) - 1
      k == len - Float64Precision
  IN  IF k <= 0 THEN x
      ELSE LET q == 2^k
               r == x.lo % q
               down == x.lo - r
               up == 2 * r > q \/ (2 * r = q /\ (down \div q) % 2 = 1)
               rounded == IF up THEN down + q ELSE down
           IN  [hi |-> x.hi + rounded \div Limb, lo |-> rounded % Limb]

\* Stats bodies whose Total_Requests is 1, 3 or 2^53 = 2^25 * Limb (the other
\* metrics are folded by the same statements and are left out).
Float64Samples ==
  { [TotalRequests |-> [hi |-> 0, lo |-> 1], IsRunning |-> TRUE],
    [TotalRequests |-> [hi |-> 0, lo |-> 3], IsRunning |-> FALSE],
    [TotalRequests |-> [hi |-> 2^25, lo |-> 0], IsRunning |-> TRUE] }

\* var agg AggregatedStats, for TotalRequests and IsRunning; Avg is kept as
\* the sum and the count it is divided by.
ZeroFloat64Aggregate ==
  [Min |-> Float64Zero, Max |-> Float64Zero,
   Avg |-> [num |-> Float64Zero, den |-> 1], Total |-> Float64Zero,
   IsRunning |-> [Running |-> 0, Total |-> 0]]

\* (a variant that takes every value as the new Max)
AddFloat64ResponseLastMax(agg, data) ==
  LET v == data.TotalRequests
  IN  [Min |-> IF Float64Less(v, agg.Min) THEN v ELSE agg.Min,
       Max |-> v,
       Avg |-> [agg.Avg EXCEPT !.num = Float64Add(@, v)],
       Total |-> Float64Add(agg.Total, v),
       IsRunning |->
         [Running |-> agg.IsRunning.Running + (IF data.IsRunning THEN 1 ELSE 0),
          Total |-> agg.IsRunning.Total + 1]]

\* One iteration of `for _, resp := range responses` on float64 values: the
\* min and max comparisons, Avg += v, Total += v, and the IsRunning counts.
AddFloat64Response(agg, data) ==
  LET v == data.TotalRequests
  IN  [Min |-> IF Float64Less(v, agg.Min) THEN v ELSE agg.Min,
       Max |-> IF Float64Less(agg.Max, v) THEN v ELSE agg.Max,
       Avg |-> [agg.Avg EXCEPT !.num = Float64Add(@, v)],
       Total |-> Float64Add(agg.Total, v),
       IsRunning |->
         [Running |-> agg.IsRunning.Running + (IF data.IsRunning THEN 1 ELSE 0),
          Total |-> agg.IsRunning.Total + 1]]

RECURSIVE AccumulateFloat64(_, _, _)
AccumulateFloat64(agg, responses, i) ==
  IF i > Len(responses) THEN agg
  ELSE AccumulateFloat64(AddFloat64Response(agg, responses[i].Data), responses, i + 1)

\* aggregateStats on float64 values: the zero aggregate for no response; else
\* Min and Max start at the first response, the fold runs over every
\* response in the order of the slice, and Avg is divided by the count.
aggregateFloat64Stats(responses) ==
  IF Len(responses) = 0 THEN ZeroFloat64Aggregate
  ELSE LET first == responses[1].Data.TotalRequests
           agg == AccumulateFloat64(
                    [ZeroFloat64Aggregate EXCEPT !.Min = first, !.Max = first],
                    responses, 1)
       IN  [agg EXCEPT !.Avg.den = Len(responses)]

\* What an endpoint's answer is to the tool: the err of client.Do ("nil", a
\* refused connection, the 10 s client timeout), and for a nil err the status
\* code and whether the body decodes into a StatsResponse, with its Data.
NoAnswer == [err |-> "none", status |-> 0, decodes |-> FALSE]

\* What is kept of an answer r once its goroutine has handled it.
Outcome(r) == [err |-> r.err, status |-> r.status, decodes |-> r.decodes]

FleetStatuses == {200, 201, 404, 500}

\* The answers to a start, stop or frequency request: their body is never
\* read.
CommandAnswers ==
  { [err |-> e, status |-> 0, decodes |-> FALSE, Data |-> ZeroSample] :
      e \in {"refused", "timeout"} }
  \cup { [err |-> "nil", status |-> st, decodes |-> FALSE, Data |-> ZeroSample] :
           st \in FleetStatuses }

\* The answers to a stats request.
StatsAnswers ==
  CommandAnswers
  \cup { [err |-> "nil", status |-> st, decodes |-> TRUE, Data |-> d] :
           st \in FleetStatuses, d \in Samples }

\* Before aggregateStats has been called there is no aggregate.
NoAggregate == <<>>

\* What the tool has printed at its end: "All requests completed." (command
\* mode), "No successful responses received", or the aggregate with the
\* count in its heading (stats mode).
NoOutput == [completed |-> FALSE, noResponses |-> FALSE, aggregated |-> FALSE,
             count |-> 0, agg |-> NoAggregate]

\* No run of the fleet tool is in progress. A run has the mode of its
\* subcommand, the port the loop spawns next, the WaitGroup counter, per port
\* the position of its goroutine, the number of client.Do calls made, the
\* answer received, the lines printed or logged about it and the number of
\* responses it appended; the responses slice and the final output.
NoFleet == [pc |-> "none", mode |-> "none", next |-> 1, wg |-> 0,
            w |-> [p \in Ports |-> "none"],
            sent |-> [p \in Ports |-> 0],
            answer |-> [p \in Ports |-> NoAnswer],
            lines |-> [p \in Ports |-> <<>>],
            appended |-> [p \in Ports |-> 0],
            responses |-> <<>>,
            out |-> NoOutput]

\* The spam_unary tool before its run: no latency recorded, no percentile
\* asked (q is the quantile in thousandths, result what p returned); no job
\* queued, no worker started (w), latMu free, and the counters ok and fail
\* (calls: the calls made, history) at zero.
NoTool == [pc |-> "none", latencies |-> <<>>, asked |-> FALSE, q |-> 0,
           result |-> 0, total |-> 0, jobs |-> 0, w |-> <<>>, latMu |-> 0,
           calls |-> 0, ok |-> 0, fail |-> 0]

InitState ==
  /\ isRunning = FALSE
  /\ stopChan = NilChan
  /\ frequency = DefaultFrequency
  /\ startTime = ZeroTime
  /\ payload = DefaultPayload
  /\ totalSent = 0
  /\ totalFailed = 0
  /\ mu = NoOne
  /\ nchan = 0
  /\ closed = {}
  /\ crashed = FALSE
  /\ pc = [c \in Callers |-> "idle"]
  /\ ret = [c \in Callers |-> NoReturn]
  /\ loops = [l \in Loops |-> NoLoop]
  /\ hist = [starts |-> 0, stops |-> 0]
  /\ now = 0
  /\ nextFire = [l \in Loops |-> 0]
  /\ trace = [ticks |-> <<>>, sets |-> <<>>]
  /\ burst = NoBurst
  /\ fleet = NoFleet
  /\ tool = NoTool

Init == InitState /\ timed = FALSE

InitTimed == InitState /\ timed = TRUE

\* ------------------------------------------------------------ sync.RWMutex
\* dg.mu.Lock() / dg.mu.RLock() return only while no goroutine holds the write
\* lock.  The read sections of the model are single steps, so no reader is
\* ever inside one when another step runs.
MuFreeNoExclusion == TRUE

MuFree == mu = NoOne

\* ------------------------------------------------------------ time.ParseDuration
\* A duration string is [neg, n, unit]: an optional sign, a decimal number
\* (n < 0: no digits at all) and a unit suffix.
UnitMs == [ms |-> 1, s |-> 1000]

ParseDuration(d) ==
  IF d.n < 0 THEN [err |-> TRUE, d |-> 0]
  ELSE IF d.unit = "" THEN
         IF d.n = 0 THEN [err |-> FALSE, d |-> 0] ELSE [err |-> TRUE, d |-> 0]
  ELSE IF d.unit \notin DOMAIN UnitMs THEN [err |-> TRUE, d |-> 0]
  ELSE [err |-> FALSE, d |-> (IF d.neg THEN -1 ELSE 1) * d.n * UnitMs[d.unit]]

\* The request bodies POST /frequency is driven with:
\* "500ms", "0s", "fast".
DurationInputs ==
  { [neg |-> FALSE, n |-> 500, unit |-> "ms"],
    [neg |-> FALSE, n |-> 0, unit |-> "s"],
    [neg |-> FALSE, n |-> -1, unit |-> "fast"] }

\* ------------------------------------------------------------ time.Now()
\* untimed: every reading is later than the one before.
TimeNow == IF timed THEN now ELSE now + 1

\* ------------------------------------------------------------ Start()
\* Start without the isRunning test
StartLockNoTest(c) ==
  /\ ~crashed
  /\ pc[c] = "idle"
  /\ MuFree
  /\ nchan < MaxStarts
  /\ pc' = [pc EXCEPT ![c] = "StartSet"]
  /\ mu' = c
  /\ UNCHANGED <<burst, dgVars, nchan, closed, crashed, ret, loops, hist, envVars, fleet, tool>>

\* dg.mu.Lock(); if dg.isRunning { return false }
StartLock(c) ==
  /\ ~crashed
  /\ pc[c] = "idle"
  /\ MuFree
  /\ isRunning \/ nchan < MaxStarts
  /\ IF isRunning
       THEN /\ pc' = [pc EXCEPT ![c] = "StartDone"]
            /\ ret' = [ret EXCEPT ![c] = [ok |-> FALSE]]
            /\ UNCHANGED mu
       ELSE /\ pc' = [pc EXCEPT ![c] = "StartSet"]
            /\ mu' = c
            /\ UNCHANGED ret
  /\ UNCHANGED <<burst, dgVars, nchan, closed, crashed, loops, hist, envVars, fleet, tool>>

\* Start that begins the new run with zeroed counters
StartSetResetCounters(c) ==
  /\ ~crashed
  /\ pc[c] = "StartSet"
  /\ nchan < MaxStarts
  /\ isRunning' = TRUE
  /\ nchan' = nchan + 1
  /\ stopChan' = nchan + 1
  /\ startTime' = TimeNow
  /\ now' = TimeNow
  /\ totalSent' = 0
  /\ totalFailed' = 0
  /\ loops' = [loops EXCEPT ![nchan + 1] = [NoLoop EXCEPT !.pc = "new"]]
  /\ hist' = [hist EXCEPT !.starts = @ + 1]
  /\ pc' = [pc EXCEPT ![c] = "StartDone"]
  /\ ret' = [ret EXCEPT ![c] = [ok |-> TRUE]]
  /\ mu' = NoOne
  /\ UNCHANGED <<burst, frequency, payload, closed, crashed, timed, fleet, tool, nextFire, trace>>

\* Start that makes a stop channel only when the emitter has none yet
StartSetKeepChan(c) ==
  /\ ~crashed
  /\ pc[c] = "StartSet"
  /\ nchan < MaxStarts
  /\ isRunning' = TRUE
  /\ nchan' = nchan + 1
  /\ stopChan' = IF stopChan = NilChan THEN nchan + 1 ELSE stopChan
  /\ startTime' = TimeNow
  /\ now' = TimeNow
  /\ loops' = [loops EXCEPT ![nchan + 1] = [NoLoop EXCEPT !.pc = "new"]]
  /\ hist' = [hist EXCEPT !.starts = @ + 1]
  /\ pc' = [pc EXCEPT ![c] = "StartDone"]
  /\ ret' = [ret EXCEPT ![c] = [ok |-> TRUE]]
  /\ mu' = NoOne
  /\ UNCHANGED <<burst, frequency, payload, totalSent, totalFailed, closed, crashed,
                 timed, fleet, tool, nextFire, trace>>

\* dg.isRunning = true; dg.stopChan = make(chan struct{});
\* dg.startTime = time.Now(); go dg.generateContinuously(); return true
StartSet(c) ==
  /\ ~crashed
  /\ pc[c] = "StartSet"
  /\ nchan < MaxStarts
  /\ isRunning' = TRUE
  /\ nchan' = nchan + 1
  /\ stopChan' = nchan + 1
  /\ startTime' = TimeNow
  /\ now' = TimeNow
  /\ loops' = [loops EXCEPT ![nchan + 1] = [NoLoop EXCEPT !.pc = "new"]]
  /\ hist' = [hist EXCEPT !.starts = @ + 1]
  /\ pc' = [pc EXCEPT ![c] = "StartDone"]
  /\ ret' = [ret EXCEPT ![c] = [ok |-> TRUE]]
  /\ mu' = NoOne
  /\ UNCHANGED <<burst, frequency, payload, totalSent, totalFailed, closed, crashed,
                 timed, fleet, tool, nextFire, trace>>

\* ------------------------------------------------------------ Stop()
\* Stop without the isRunning test
StopLockNoTest(c) ==
  /\ ~crashed
  /\ pc[c] = "idle"
  /\ MuFree
  /\ pc' = [pc EXCEPT ![c] = "StopSet"]
  /\ mu' = c
  /\ UNCHANGED <<burst, dgVars, nchan, closed, crashed, ret, loops, hist, envVars, fleet, tool>>

\* Stop that tests isRunning without taking the lock
StopLockNoLock(c) ==
  /\ ~crashed
  /\ pc[c] = "idle"
  /\ IF ~isRunning
       THEN /\ pc' = [pc EXCEPT ![c] = "StopDone"]
            /\ ret' = [ret EXCEPT ![c] = [ok |-> FALSE]]
       ELSE /\ pc' = [pc EXCEPT ![c] = "StopSet"]
            /\ UNCHANGED ret
  /\ UNCHANGED <<burst, dgVars, rtVars, loops, hist, envVars, fleet, tool>>

\* dg.mu.Lock(); if !dg.isRunning { return false }
StopLock(c) ==
  /\ ~crashed
  /\ pc[c] = "idle"
  /\ MuFree
  /\ IF ~isRunning
       THEN /\ pc' = [pc EXCEPT ![c] = "StopDone"]
            /\ ret' = [ret EXCEPT ![c] = [ok |-> FALSE]]
            /\ UNCHANGED mu
       ELSE /\ pc' = [pc EXCEPT ![c] = "StopSet"]
            /\ mu' = c
            /\ UNCHANGED ret
  /\ UNCHANGED <<burst, dgVars, nchan, closed, crashed, loops, hist, envVars, fleet, tool>>

\* (a variant of Stop that leaves the emitter marked as running)
StopSetKeepRunning(c) ==
  /\ ~crashed
  /\ pc[c] = "StopSet"
  /\ IF stopChan = NilChan \/ stopChan \in closed
       THEN /\ crashed' = TRUE
            /\ UNCHANGED <<closed, hist, pc, ret, mu>>
       ELSE /\ closed' = closed \cup {stopChan}
            /\ hist' = [hist EXCEPT !.stops = @ + 1]
            /\ pc' = [pc EXCEPT ![c] = "StopDone"]
            /\ ret' = [ret EXCEPT ![c] = [ok |-> TRUE]]
            /\ mu' = NoOne
            /\ UNCHANGED crashed
  /\ UNCHANGED <<burst, isRunning, stopChan, frequency, startTime, payload,
                 totalSent, totalFailed, nchan, loops, envVars, fleet, tool>>

\* (a variant of Stop that abandons the calls in flight)
StopSetCancel(c) ==
  /\ ~crashed
  /\ pc[c] = "StopSet"
  /\ isRunning' = FALSE
  /\ loops' = [l \in Loops |->
                 IF loops[l].pc = "call"
                   THEN [loops[l] EXCEPT !.pc = "done", !.ticker = 0,
                                         !.reading = NoReading]
                   ELSE loops[l]]
  /\ IF stopChan = NilChan \/ stopChan \in closed
       THEN /\ crashed' = TRUE
            /\ UNCHANGED <<closed, hist, pc, ret, mu>>
       ELSE /\ closed' = closed \cup {stopChan}
            /\ hist' = [hist EXCEPT !.stops = @ + 1]
            /\ pc' = [pc EXCEPT ![c] = "StopDone"]
            /\ ret' = [ret EXCEPT ![c] = [ok |-> TRUE]]
            /\ mu' = NoOne
            /\ UNCHANGED crashed
  /\ UNCHANGED <<burst, stopChan, frequency, startTime, payload, totalSent, totalFailed,
                 nchan, envVars, fleet, tool>>

\* dg.isRunning = false; close(dg.stopChan); return true
\* close of a nil or of a closed channel panics.
StopSet(c) ==
  /\ ~crashed
  /\ pc[c] = "StopSet"
  /\ isRunning' = FALSE
  /\ IF stopChan = NilChan \/ stopChan \in closed
       THEN /\ crashed' = TRUE
            /\ UNCHANGED <<closed, hist, pc, ret, mu>>
       ELSE /\ closed' = closed \cup {stopChan}
            /\ hist' = [hist EXCEPT !.stops = @ + 1]
            /\ pc' = [pc EXCEPT ![c] = "StopDone"]
            /\ ret' = [ret EXCEPT ![c] = [ok |-> TRUE]]
            /\ mu' = NoOne
            /\ UNCHANGED crashed
  /\ UNCHANGED <<burst, stopChan, frequency, startTime, payload, totalSent, totalFailed,
                 nchan, loops, envVars, fleet, tool>>

\* ------------------------------------------------------------ SetFrequency
\* usecase: dg.mu.Lock(); dg.frequency = freq; dg.mu.Unlock()
SetFrequency(freq) ==
  /\ MuFree
  /\ frequency' = freq

\* The status codes of the frequency handler
StatusOK == 200
StatusBadRequest == 400

\* (a variant that hands the zero duration of a failed parse on to
\* SetFrequency before it answers 400)
FrequencyOutcomeUnchecked(s) ==
  LET r == ParseDuration(s) IN
    [set |-> TRUE, d |-> r.d,
     status |-> IF r.err THEN StatusBadRequest ELSE StatusOK]

\* router: duration, err := time.ParseDuration(req.Timeout); on an error the
\* handler answers 400 and calls nothing; else SetFrequency(duration), 200.
FrequencyOutcome(s) ==
  LET r == ParseDuration(s) IN
    IF r.err THEN [set |-> FALSE, d |-> 0, status |-> StatusBadRequest]
             ELSE [set |-> TRUE, d |-> r.d, status |-> StatusOK]

\* What the handler of POST /frequency does to the emitter.
FrequencyEffect(c, s) ==
  /\ ~crashed
  /\ pc[c] = "idle"
  /\ LET o == FrequencyOutcome(s) IN
       IF o.set
         THEN /\ SetFrequency(o.d)
              /\ trace' = IF timed /\ trace.sets = <<>>
                            THEN [trace EXCEPT !.sets = <<[at |-> now, d |-> o.d]>>]
                            ELSE trace
         ELSE UNCHANGED <<frequency, trace>>
  /\ UNCHANGED <<burst, isRunning, stopChan, startTime, payload, totalSent, totalFailed,
                 rtVars, loops, hist, now, timed, fleet, tool, nextFire>>

\* The handler of POST /frequency from its request to the end of its
\* goroutine: the response is written and gone within the step.
RouterSetFrequency(c, s) ==
  /\ FrequencyEffect(c, s)
  /\ UNCHANGED callVars

\* The same handler, its response kept for the client until Return.
RouterSetFrequencyRespond(c, s) ==
  /\ FrequencyEffect(c, s)
  /\ ret' = [ret EXCEPT ![c] = [status |-> FrequencyOutcome(s).status]]
  /\ pc' = [pc EXCEPT ![c] = "FreqDone"]

\* ------------------------------------------------------------ ReadingSink
\* _, err := dg.client.Readings(ctx, ...) returns: err is nil, or an error
\* (of the sink, of the transport, or the deadline of ctx, requestTimeout).
CallOutcomes == {"nil", "error"}

\* ------------------------------------------------------------ Config
\* Requests of POST /config: a field left out of the JSON body is bound to
\* its zero value.
ConfigInputs ==
  { [value |-> 0, type |-> "", id1 |-> "", id2 |-> 0],
    [value |-> 0, type |-> "", id1 |-> "", id2 |-> 7],
    [value |-> 20, type |-> "HUM", id1 |-> "", id2 |-> 0] }

\* Config taken as a wholesale replacement of the payload
ConfigReplace(c, config) ==
  /\ ~crashed
  /\ pc[c] = "idle"
  /\ MuFree
  /\ payload' = config
  /\ UNCHANGED <<burst, isRunning, stopChan, frequency, startTime, totalSent,
                 totalFailed, rtVars, callVars, loops, hist, envVars, fleet, tool>>

\* The four tests of Config: a non-zero field of config replaces the
\* emitter's, a zero one leaves it.
ApplyConfig(p, config) ==
  [value |-> IF config.value # 0 THEN config.value ELSE p.value,
   type  |-> IF config.type # "" THEN config.type ELSE p.type,
   id1   |-> IF config.id1 # "" THEN config.id1 ELSE p.id1,
   id2   |-> IF config.id2 # 0 THEN config.id2 ELSE p.id2]

\* dg.mu.Lock(); the four tests and assignments; dg.mu.Unlock().  The router
\* answers 200 with no payload.
Config(c, config) ==
  /\ ~crashed
  /\ pc[c] = "idle"
  /\ MuFree
  /\ payload' = ApplyConfig(payload, config)
  /\ UNCHANGED <<burst, isRunning, stopChan, frequency, startTime, totalSent,
                 totalFailed, rtVars, callVars, loops, hist, envVars, fleet, tool>>

\* ------------------------------------------------------------ GetStats
\* Between its two loads a stats call keeps, next to the value loaded, the
\* pairs <<totalSent, totalFailed>> that have held since the first load
\* (history); the second load closes the list.
Reading(c) == pc[c] \in {"StatsFailed", "DetailedFailed"}

Observed(sent, failed) ==
  [c \in Callers |->
     IF Reading(c) THEN [ret[c] EXCEPT !.held = @ \cup {<<sent, failed>>}]
                   ELSE ret[c]]

\* return atomic.LoadUint64(&dg.totalSent), ...: the first load
GetStatsSent(c) ==
  /\ ~crashed
  /\ pc[c] = "idle"
  /\ pc' = [pc EXCEPT ![c] = "StatsFailed"]
  /\ ret' = [ret EXCEPT ![c] = [sent |-> totalSent,
                                held |-> {<<totalSent, totalFailed>>}]]
  /\ UNCHANGED <<burst, dgVars, rtVars, loops, hist, envVars, fleet, tool>>

\* ..., atomic.LoadUint64(&dg.totalFailed): the second load
GetStatsFailed(c) ==
  /\ ~crashed
  /\ pc[c] = "StatsFailed"
  /\ pc' = [pc EXCEPT ![c] = "StatsDone"]
  /\ ret' = [ret EXCEPT ![c] = [sent |-> ret[c].sent, failed |-> totalFailed,
                                held |-> ret[c].held]]
  /\ UNCHANGED <<burst, dgVars, rtVars, loops, hist, envVars, fleet, tool>>

\* ------------------------------------------------------------ GetDetailedStats
\* totalSent := atomic.LoadUint64(&dg.totalSent)
DetailedSent(c) ==
  /\ ~crashed
  /\ pc[c] = "idle"
  /\ pc' = [pc EXCEPT ![c] = "DetailedFailed"]
  /\ ret' = [ret EXCEPT ![c] = [sent |-> totalSent,
                                held |-> {<<totalSent, totalFailed>>}]]
  /\ UNCHANGED <<burst, dgVars, rtVars, loops, hist, envVars, fleet, tool>>

\* totalFailed := atomic.LoadUint64(&dg.totalFailed)
DetailedFailed(c) ==
  /\ ~crashed
  /\ pc[c] = "DetailedFailed"
  /\ pc' = [pc EXCEPT ![c] = "DetailedRead"]
  /\ ret' = [ret EXCEPT ![c] = [sent |-> ret[c].sent, failed |-> totalFailed,
                                held |-> ret[c].held]]
  /\ UNCHANGED <<burst, dgVars, rtVars, loops, hist, envVars, fleet, tool>>

\* Overall_RPS = float64(totalRequests) / uptimeSeconds when uptimeSeconds > 0,
\* else 0: kept as the fraction requests / milliseconds of uptime.
OverallRPS(totalRequests, uptime) ==
  IF uptime > 0 THEN [num |-> totalRequests, den |-> uptime]
                ELSE [num |-> 0, den |-> 1]

\* (a variant that measures the uptime from the last start even when the
\* emitter is stopped)
DetailedReadNoGuard(c) ==
  /\ ~crashed
  /\ pc[c] = "DetailedRead"
  /\ MuFree
  /\ LET totalRequests == ret[c].sent + ret[c].failed
         uptime == IF startTime # ZeroTime THEN TimeNow - startTime ELSE 0
     IN ret' = [ret EXCEPT ![c] =
                 [Total_Sent |-> ret[c].sent,
                  Total_Failed |-> ret[c].failed,
                  Total_Requests |-> totalRequests,
                  Uptime |-> uptime,
                  Overall_RPS |-> OverallRPS(totalRequests, uptime),
                  Is_Running |-> isRunning,
                  Configured_FreqMs |-> frequency]]
  /\ pc' = [pc EXCEPT ![c] = "DetailedDone"]
  /\ UNCHANGED <<burst, dgVars, rtVars, loops, hist, envVars, fleet, tool>>

\* (a variant that returns without dg.mu.RUnlock())
DetailedReadKeepLock(c) ==
  /\ ~crashed
  /\ pc[c] = "DetailedRead"
  /\ MuFree
  /\ LET totalRequests == ret[c].sent + ret[c].failed
         uptime == IF isRunning /\ startTime # ZeroTime
                     THEN TimeNow - startTime ELSE 0
     IN ret' = [ret EXCEPT ![c] =
                 [Total_Sent |-> ret[c].sent,
                  Total_Failed |-> ret[c].failed,
                  Total_Requests |-> totalRequests,
                  Uptime |-> uptime,
                  Overall_RPS |-> OverallRPS(totalRequests, uptime),
                  Is_Running |-> isRunning,
                  Configured_FreqMs |-> frequency]]
  /\ pc' = [pc EXCEPT ![c] = "DetailedDone"]
  /\ mu' = c
  /\ UNCHANGED <<burst, dgVars, nchan, closed, crashed, loops, hist, envVars, fleet, tool>>

\* dg.mu.RLock(); isRunning, startTime, frequency are read; dg.mu.RUnlock();
\* uptime is time.Since(startTime) when running with a non-zero startTime,
\* else 0; the map is built.
DetailedRead(c) ==
  /\ ~crashed
  /\ pc[c] = "DetailedRead"
  /\ MuFree
  /\ LET totalRequests == ret[c].sent + ret[c].failed
         uptime == IF isRunning /\ startTime # ZeroTime
                     THEN TimeNow - startTime ELSE 0
     IN ret' = [ret EXCEPT ![c] =
                 [Total_Sent |-> ret[c].sent,
                  Total_Failed |-> ret[c].failed,
                  Total_Requests |-> totalRequests,
                  Uptime |-> uptime,
                  Overall_RPS |-> OverallRPS(totalRequests, uptime),
                  Is_Running |-> isRunning,
                  Configured_FreqMs |-> frequency]]
  /\ pc' = [pc EXCEPT ![c] = "DetailedDone"]
  /\ UNCHANGED <<burst, dgVars, rtVars, loops, hist, envVars, fleet, tool>>

\* ------------------------------------------------------------ IsRunning
\* IsRunning() is called.
IsRunningCall(c) ==
  /\ ~crashed
  /\ pc[c] = "idle"
  /\ pc' = [pc EXCEPT ![c] = "IsRunning"]
  /\ UNCHANGED <<burst, dgVars, rtVars, loops, hist, ret, envVars, fleet, tool>>

\* dg.mu.RLock(); return dg.isRunning (dg.mu.RUnlock() deferred)
IsRunning(c) ==
  /\ ~crashed
  /\ pc[c] = "IsRunning"
  /\ MuFree
  /\ ret' = [ret EXCEPT ![c] = [ok |-> isRunning]]
  /\ pc' = [pc EXCEPT ![c] = "IsRunningDone"]
  /\ UNCHANGED <<burst, dgVars, rtVars, loops, hist, envVars, fleet, tool>>

\* ------------------------------------------------------------ SpamRequests
\* Requests of POST /spam.
BurstTotals == 0..MaxTotal
BurstConcurrencies == 0..MaxConcurrency

\* time.Since(startTime) at the end of a burst, in microseconds: the second
\* reading of the clock is taken after the workers were started and joined,
\* so it is later than the first.
BurstElapsed == {500, 2000}

\* duration.Milliseconds() of a duration in microseconds
Milliseconds(d) == d \div 1000

\* (a variant whose queue has no buffer: jobs := make(chan int))
SpamStartUnbuffered(c, total, concurrency) ==
  /\ ~crashed
  /\ pc[c] = "idle"
  /\ burst.pc = "none"
  /\ burst' = [pc |-> "fill", owner |-> c, total |-> total,
               concurrency |-> concurrency, cap |-> 0, jobs |-> 0,
               idle |-> 0, busy |-> 0, calls |-> 0, ok |-> 0, fail |-> 0]
  /\ pc' = [pc EXCEPT ![c] = "Spam"]
  /\ UNCHANGED <<dgVars, rtVars, ret, loops, hist, envVars, fleet, tool>>

\* jobs := make(chan int, req.Total): the queue has room for req.Total
\* tokens; with a negative req.Total make panics (makechan: size out of
\* range), the handler is abandoned and middleware.Recover answers 500.
\* One burst runs at a time.
SpamStart(c, total, concurrency) ==
  /\ ~crashed
  /\ pc[c] = "idle"
  /\ burst.pc = "none"
  /\ IF total < 0
       THEN /\ pc' = [pc EXCEPT ![c] = "SpamPanic"]
            /\ UNCHANGED burst
       ELSE /\ pc' = [pc EXCEPT ![c] = "Spam"]
            /\ burst' = [pc |-> "fill", owner |-> c, total |-> total,
                         concurrency |-> concurrency, cap |-> total,
                         jobs |-> 0, idle |-> 0, busy |-> 0, calls |-> 0,
                         ok |-> 0, fail |-> 0]
  /\ UNCHANGED <<dgVars, rtVars, ret, loops, hist, envVars, fleet, tool>>

\* for i := 0; i < req.Total; i++ { jobs <- i }: the send waits while the
\* queue is full (no worker is running yet to make room).
SpamFill ==
  /\ ~crashed
  /\ burst.pc = "fill"
  /\ burst.jobs < burst.total
  /\ burst.jobs < burst.cap
  /\ burst' = [burst EXCEPT !.jobs = @ + 1]
  /\ UNCHANGED <<dgVars, rtVars, callVars, loops, hist, envVars, fleet, tool>>

\* (a variant that starts one worker more than asked for)
SpamWorkersExtra ==
  /\ ~crashed
  /\ burst.pc = "fill"
  /\ burst.jobs = burst.total
  /\ burst' = [burst EXCEPT !.pc = "run", !.idle = burst.concurrency + 1]
  /\ UNCHANGED <<dgVars, rtVars, callVars, loops, hist, envVars, fleet, tool>>

\* close(jobs); ok, fail := 0, 0; startTime := time.Now(); req.Concurrency
\* workers are started.
SpamWorkers ==
  /\ ~crashed
  /\ burst.pc = "fill"
  /\ burst.jobs = burst.total
  /\ burst' = [burst EXCEPT !.pc = "run", !.idle = burst.concurrency]
  /\ UNCHANGED <<dgVars, rtVars, callVars, loops, hist, envVars, fleet, tool>>

\* (a variant whose receive also returns, with the zero value, on the closed
\* and empty queue)
WorkerTakeClosed ==
  /\ ~crashed
  /\ burst.pc = "run"
  /\ burst.idle > 0
  /\ burst' = [burst EXCEPT !.jobs = IF @ > 0 THEN @ - 1 ELSE 0,
                            !.idle = @ - 1, !.busy = @ + 1, !.calls = @ + 1]
  /\ UNCHANGED <<dgVars, rtVars, callVars, loops, hist, envVars, fleet, tool>>

\* for range jobs: a worker receives a token and calls dg.client.Readings
WorkerTake ==
  /\ ~crashed
  /\ burst.pc = "run"
  /\ burst.idle > 0
  /\ burst.jobs > 0
  /\ burst' = [burst EXCEPT !.jobs = @ - 1, !.idle = @ - 1, !.busy = @ + 1,
                            !.calls = @ + 1]
  /\ UNCHANGED <<dgVars, rtVars, callVars, loops, hist, envVars, fleet, tool>>

\* for range jobs: the queue is closed and empty; the worker ends, wg.Done()
WorkerExit ==
  /\ ~crashed
  /\ burst.pc = "run"
  /\ burst.idle > 0
  /\ burst.jobs = 0
  /\ burst' = [burst EXCEPT !.idle = @ - 1]
  /\ UNCHANGED <<dgVars, rtVars, callVars, loops, hist, envVars, fleet, tool>>

\* (a variant that counts only the calls that succeed)
WorkerReturnOkOnly(err) ==
  /\ ~crashed
  /\ burst.pc = "run"
  /\ burst.busy > 0
  /\ burst' = [burst EXCEPT !.busy = @ - 1, !.idle = @ + 1,
                            !.ok = IF err = "nil" THEN @ + 1 ELSE @]
  /\ UNCHANGED <<dgVars, rtVars, callVars, loops, hist, envVars, fleet, tool>>

\* (a variant that counts the burst's calls in the emitter's counters too)
WorkerReturnShared(err) ==
  /\ ~crashed
  /\ burst.pc = "run"
  /\ burst.busy > 0
  /\ burst' = [burst EXCEPT !.busy = @ - 1, !.idle = @ + 1,
                            !.ok = IF err = "nil" THEN @ + 1 ELSE @,
                            !.fail = IF err # "nil" THEN @ + 1 ELSE @]
  /\ totalSent' = IF err = "nil" THEN totalSent + 1 ELSE totalSent
  /\ totalFailed' = IF err # "nil" THEN totalFailed + 1 ELSE totalFailed
  /\ UNCHANGED <<isRunning, stopChan, frequency, startTime, payload, rtVars,
                 callVars, loops, hist, envVars, fleet, tool>>

\* the call returns: if err != nil { atomic.AddUint64(&fail, 1) } else
\* { atomic.AddUint64(&ok, 1) }; the worker goes back to the queue.
WorkerReturn(err) ==
  /\ ~crashed
  /\ burst.pc = "run"
  /\ burst.busy > 0
  /\ burst' = [burst EXCEPT !.busy = @ - 1, !.idle = @ + 1,
                            !.ok = IF err = "nil" THEN @ + 1 ELSE @,
                            !.fail = IF err # "nil" THEN @ + 1 ELSE @]
  /\ UNCHANGED <<dgVars, rtVars, callVars, loops, hist, envVars, fleet, tool>>

\* The result map of SpamRequests after duration microseconds.
SpamResult(duration) ==
  [total_requests |-> burst.total,
   successful |-> burst.ok,
   failed |-> burst.fail,
   duration_ms |-> Milliseconds(duration),
   requests_per_second |-> FloatDiv(burst.total, duration)]

\* (a variant without the join: it returns once no worker is at the queue)
SpamReturnEarly(c) ==
  /\ ~crashed
  /\ pc[c] = "Spam"
  /\ burst.owner = c
  /\ burst.pc = "run"
  /\ burst.idle = 0
  /\ \E duration \in BurstElapsed :
       ret' = [ret EXCEPT ![c] = SpamResult(duration)]
  /\ pc' = [pc EXCEPT ![c] = "SpamDone"]
  /\ burst' = NoBurst
  /\ UNCHANGED <<dgVars, rtVars, loops, hist, envVars, fleet, tool>>

\* wg.Wait() returns when every worker has ended; duration and rps are
\* computed and the result map is built.
SpamReturn(c) ==
  /\ ~crashed
  /\ pc[c] = "Spam"
  /\ burst.owner = c
  /\ burst.pc = "run"
  /\ burst.idle = 0
  /\ burst.busy = 0
  /\ \E duration \in BurstElapsed :
       ret' = [ret EXCEPT ![c] = SpamResult(duration)]
  /\ pc' = [pc EXCEPT ![c] = "SpamDone"]
  /\ burst' = NoBurst
  /\ UNCHANGED <<dgVars, rtVars, loops, hist, envVars, fleet, tool>>

\* ------------------------------------------------------------ response
\* The handler has written its response; its goroutine ends.
Return(c) ==
  /\ ~crashed
  /\ pc[c] \in {"StartDone", "StopDone", "FreqDone", "StatsDone", "DetailedDone",
              "SpamDone", "SpamPanic", "IsRunningDone"}
  /\ pc' = [pc EXCEPT ![c] = "idle"]
  /\ ret' = [ret EXCEPT ![c] = NoReturn]
  /\ UNCHANGED <<burst, dgVars, rtVars, loops, hist, envVars, fleet, tool>>

\* ------------------------------------------------------------ generateContinuously
\* The loops inside sendSingleReading
InFlight ==
  Cardinality({l \in Loops : \/ loops[l].pc \in {"call", "count"}
                             \/ loops[l].pc = "send" /\ loops[l].reading.read > 0})

\* ticker := time.NewTicker(dg.frequency): reads dg.frequency without the
\* lock; NewTicker panics on a non-positive period.
LoopNewTicker(l) ==
  /\ ~crashed
  /\ loops[l].pc = "new"
  /\ IF frequency <= 0
       THEN /\ crashed' = TRUE
            /\ UNCHANGED <<loops, nextFire>>
       ELSE /\ loops' = [loops EXCEPT ![l].ticker = frequency, ![l].pc = "init"]
            /\ nextFire' = IF timed THEN [nextFire EXCEPT ![l] = now + frequency]
                                    ELSE nextFire
            /\ UNCHANGED crashed
  /\ UNCHANGED <<burst, dgVars, mu, nchan, closed, callVars, hist, now, timed, fleet, tool, trace>>

\* currentFreq := dg.frequency: a second read, again without the lock
LoopInitFreq(l) ==
  /\ ~crashed
  /\ loops[l].pc = "init"
  /\ loops' = [loops EXCEPT ![l].currentFreq = frequency, ![l].pc = "select"]
  /\ UNCHANGED <<burst, dgVars, rtVars, callVars, hist, envVars, fleet, tool>>

\* select { case <-dg.stopChan: ... case <-ticker.C: ... }: the channel
\* operands are evaluated on entering the select, dg.stopChan without the lock.
LoopSelect(l) ==
  /\ ~crashed
  /\ loops[l].pc = "select"
  /\ loops' = [loops EXCEPT ![l].waitChan = stopChan, ![l].pc = "wait"]
  /\ UNCHANGED <<burst, dgVars, rtVars, callVars, hist, envVars, fleet, tool>>

\* case <-dg.stopChan: return (defer ticker.Stop())
LoopStop(l) ==
  /\ ~crashed
  /\ loops[l].pc = "wait"
  /\ loops[l].waitChan \in closed
  /\ loops' = [loops EXCEPT ![l].pc = "done", ![l].ticker = 0, ![l].tick = FALSE]
  /\ UNCHANGED <<burst, dgVars, rtVars, callVars, hist, envVars, fleet, tool>>

\* case <-ticker.C: when both cases are ready the runtime picks either.
\* untimed: a tick may have arrived whenever the loop looks.
LoopTick(l) ==
  /\ ~crashed
  /\ loops[l].pc = "wait"
  /\ IF timed THEN loops[l].tick ELSE loops[l].ticker > 0
  /\ loops' = [loops EXCEPT ![l].tick = FALSE, ![l].pc = "tick",
                            ![l].late = @ \/ l \in closed]
  /\ trace' = IF timed /\ Len(trace.ticks) < 3
                THEN [trace EXCEPT !.ticks = Append(@, now)]
                ELSE trace
  /\ UNCHANGED <<burst, dgVars, rtVars, callVars, hist, now, timed, fleet, tool, nextFire>>

\* dg.mu.RLock(); newFreq := dg.frequency; dg.mu.RUnlock();
\* newFreq == currentFreq: the ticker is kept.
LoopKeep(l) ==
  /\ ~crashed
  /\ loops[l].pc = "tick"
  /\ MuFree
  /\ frequency = loops[l].currentFreq
  /\ loops' = [loops EXCEPT ![l].pc = "send"]
  /\ UNCHANGED <<burst, dgVars, rtVars, callVars, hist, envVars, fleet, tool>>

\* A changed period is noted but the running ticker is kept
LoopRearmKeepTicker(l) ==
  /\ ~crashed
  /\ loops[l].pc = "tick"
  /\ MuFree
  /\ frequency # loops[l].currentFreq
  /\ loops' = [loops EXCEPT ![l].currentFreq = frequency, ![l].pc = "send"]
  /\ UNCHANGED <<burst, dgVars, rtVars, callVars, hist, envVars, fleet, tool>>

\* A re-arm that takes the place of the tick's emission
LoopRearmSkip(l) ==
  /\ ~crashed
  /\ loops[l].pc = "tick"
  /\ MuFree
  /\ frequency # loops[l].currentFreq
  /\ IF frequency <= 0
       THEN /\ crashed' = TRUE
            /\ UNCHANGED <<loops, nextFire>>
       ELSE /\ loops' = [loops EXCEPT ![l].ticker = frequency, ![l].tick = FALSE,
                                      ![l].currentFreq = frequency, ![l].pc = "select"]
            /\ nextFire' = IF timed THEN [nextFire EXCEPT ![l] = now + frequency]
                                    ELSE nextFire
            /\ UNCHANGED crashed
  /\ UNCHANGED <<burst, dgVars, mu, nchan, closed, callVars, hist, now, timed, fleet, tool, trace>>

\* newFreq != currentFreq: ticker.Stop(); ticker = time.NewTicker(newFreq);
\* currentFreq = newFreq.  The new ticker's channel is empty.
LoopRearm(l) ==
  /\ ~crashed
  /\ loops[l].pc = "tick"
  /\ MuFree
  /\ frequency # loops[l].currentFreq
  /\ IF frequency <= 0
       THEN /\ crashed' = TRUE
            /\ UNCHANGED <<loops, nextFire>>
       ELSE /\ loops' = [loops EXCEPT ![l].ticker = frequency, ![l].tick = FALSE,
                                      ![l].currentFreq = frequency, ![l].pc = "send"]
            /\ nextFire' = IF timed THEN [nextFire EXCEPT ![l] = now + frequency]
                                    ELSE nextFire
            /\ UNCHANGED crashed
  /\ UNCHANGED <<burst, dgVars, mu, nchan, closed, callVars, hist, now, timed, fleet, tool, trace>>

\* ------------------------------------------------------------ sendSingleReading
\* &pb.SensorReading{Value: dg.sensorValue, ...: the first field of the
\* literal is read, without the lock.
LoopRead(l) ==
  /\ ~crashed
  /\ loops[l].pc = "send"
  /\ loops[l].reading.read = 0
  /\ totalSent + totalFailed + InFlight < MaxCalls
  /\ loops' = [loops EXCEPT ![l].reading =
                              [NoReading EXCEPT !.read = 1, !.value = payload.value]]
  /\ UNCHANGED <<burst, dgVars, rtVars, callVars, hist, envVars, fleet, tool>>

\* (a variant of the loop that takes dg.mu for the length of the call)
LoopSendHoldLock(l) ==
  /\ ~crashed
  /\ loops[l].pc = "send"
  /\ loops[l].reading.read = 1
  /\ MuFree
  /\ mu' = NumCallers + l
  /\ loops' = [loops EXCEPT ![l].pc = "call",
                            ![l].reading = [read |-> 4,
                                            value |-> loops[l].reading.value,
                                            type |-> payload.type,
                                            id1 |-> payload.id1,
                                            id2 |-> payload.id2]]
  /\ UNCHANGED <<burst, dgVars, nchan, closed, crashed, callVars, hist, envVars, fleet, tool>>

\* ... SensorType: dg.sensorType, Id1: dg.id1, Id2: dg.id2, ...}: the other
\* fields are read, without the lock, and dg.client.Readings(ctx, ...) is
\* called: the call is in flight.
LoopSend(l) ==
  /\ ~crashed
  /\ loops[l].pc = "send"
  /\ loops[l].reading.read = 1
  /\ loops' = [loops EXCEPT ![l].pc = "call",
                            ![l].reading = [read |-> 4,
                                            value |-> loops[l].reading.value,
                                            type |-> payload.type,
                                            id1 |-> payload.id1,
                                            id2 |-> payload.id2]]
  /\ UNCHANGED <<burst, dgVars, rtVars, callVars, hist, envVars, fleet, tool>>

LoopCallReturn(l, err) ==
  /\ ~crashed
  /\ loops[l].pc = "call"
  /\ loops' = [loops EXCEPT ![l].pc = "count", ![l].err = err,
                            ![l].reading = NoReading]
  /\ UNCHANGED <<burst, dgVars, rtVars, callVars, hist, envVars, fleet, tool>>

\* A returned call counted in both counters
LoopCountBoth(l) ==
  /\ ~crashed
  /\ loops[l].pc = "count"
  /\ totalFailed' = totalFailed + 1
  /\ totalSent' = totalSent + 1
  /\ loops' = [loops EXCEPT ![l].pc = "select", ![l].err = "none"]
  /\ UNCHANGED <<burst, isRunning, stopChan, frequency, startTime, payload, rtVars,
                 callVars, hist, envVars, fleet, tool>>

\* A failed call counted, and the loop ended by it
LoopCountFatal(l) ==
  /\ ~crashed
  /\ loops[l].pc = "count"
  /\ IF loops[l].err # "nil"
       THEN /\ totalFailed' = totalFailed + 1
            /\ UNCHANGED totalSent
            /\ loops' = [loops EXCEPT ![l].pc = "done", ![l].err = "none",
                                      ![l].ticker = 0]
       ELSE /\ totalSent' = totalSent + 1
            /\ UNCHANGED totalFailed
            /\ loops' = [loops EXCEPT ![l].pc = "select", ![l].err = "none"]
  /\ UNCHANGED <<burst, isRunning, stopChan, frequency, startTime, payload, rtVars,
                 callVars, hist, envVars, fleet, tool>>

\* if err != nil { atomic.AddUint64(&dg.totalFailed, 1) }
\* else { atomic.AddUint64(&dg.totalSent, 1) }; then back to the select.
LoopCount(l) ==
  /\ ~crashed
  /\ loops[l].pc = "count"
  /\ IF loops[l].err # "nil"
       THEN /\ totalFailed' = totalFailed + 1
            /\ UNCHANGED totalSent
       ELSE /\ totalSent' = totalSent + 1
            /\ UNCHANGED totalFailed
  /\ loops' = [loops EXCEPT ![l].pc = "select", ![l].err = "none"]
  /\ ret' = Observed(totalSent', totalFailed')
  /\ UNCHANGED <<burst, isRunning, stopChan, frequency, startTime, payload, rtVars,
                 pc, hist, envVars, fleet, tool>>

\* ------------------------------------------------------------ time.Ticker
\* The runtime sends on ticker.C (capacity 1) every period and drops the
\* tick when one is still buffered.
TickerFire(l) ==
  /\ ~crashed
  /\ timed
  /\ loops[l].ticker > 0
  /\ now = nextFire[l]
  /\ loops' = [loops EXCEPT ![l].tick = TRUE]
  /\ nextFire' = [nextFire EXCEPT ![l] = @ + loops[l].ticker]
  /\ UNCHANGED <<burst, dgVars, rtVars, callVars, hist, now, timed, fleet, tool, trace>>

\* ------------------------------------------------------------ wall clock
\* timed: 100 ms pass while every goroutine is parked: no handler is running,
\* no ticker is due and every loop is waiting in its select with nothing to
\* receive (or is stuck for good).
Parked(l) ==
  \/ loops[l].pc \in {"none", "done"}
  \/ /\ loops[l].pc = "wait"
     /\ ~loops[l].tick
     /\ loops[l].waitChan \notin closed
     /\ nextFire[l] > now
  \/ /\ loops[l].pc = "send"
     /\ loops[l].reading.read = 0
     /\ totalSent + totalFailed + InFlight >= MaxCalls

Advance ==
  /\ ~crashed
  /\ timed
  /\ now < MaxTimedSteps * 100
  /\ \A c \in Callers : pc[c] = "idle"
  /\ \A l \in Loops : Parked(l)
  /\ now' = now + 100
  /\ UNCHANGED <<burst, dgVars, rtVars, callVars, loops, hist, timed, fleet, tool, nextFire, trace>>

\* ------------------------------------------------------------ fleet tool: run
\* The state of the service, and everything but the fleet tool, which is
\* another process.
emitterVars == <<dgVars, rtVars, callVars, loops, hist, envVars, burst>>

serviceVars == <<emitterVars, tool>>

FleetModes == {"command", "stats"}

\* rootCmd.Execute(): a subcommand starts makeRequestToAllPorts (start, stop,
\* frequency) or getAggregatedStats (stats).
FleetRun(mode) ==
  /\ fleet.pc = "none"
  /\ fleet' = [NoFleet EXCEPT !.pc = "loop", !.mode = mode]
  /\ UNCHANGED serviceVars

\* One iteration of `for port := 9000; port <= 9009; port++`: wg.Add(1) and
\* the go statement.
FleetGo ==
  /\ fleet.pc = "loop"
  /\ fleet.next <= NumPorts
  /\ fleet' = [fleet EXCEPT !.wg = @ + 1, !.w[fleet.next] = "go",
                            !.next = @ + 1]
  /\ UNCHANGED serviceVars

\* The goroutine of port p builds its request and calls client.Do(req).
FleetDo(p) ==
  /\ fleet.w[p] = "go"
  /\ fleet' = [fleet EXCEPT !.w[p] = "do", !.sent[p] = @ + 1]
  /\ UNCHANGED serviceVars

\* (a variant that counts every status below 500 as a success)
ClassifyBelow500(r) ==
  IF r.err # "nil" THEN "error"
  ELSE IF r.status >= 200 /\ r.status < 500 THEN "success"
  ELSE "http"

\* makeRequestToAllPorts, after client.Do: the line it prints or logs.
Classify(r) ==
  IF r.err # "nil" THEN "error"
  ELSE IF r.status >= 200 /\ r.status < 300 THEN "success"
  ELSE "http"

\* getAggregatedStats, after client.Do: the line it logs, or "append".
StatsOutcome(r) ==
  IF r.err # "nil" THEN "error"
  ELSE IF r.status # 200 THEN "http"
  ELSE IF ~r.decodes THEN "decode"
  ELSE "append"

\* (a variant in which a failed client.Do is tried again)
FleetAnswerRetry(p, r) ==
  /\ fleet.w[p] = "do"
  /\ fleet.mode = "command"
  /\ IF r.err # "nil" /\ fleet.sent[p] < 2
       THEN fleet' = [fleet EXCEPT !.w[p] = "go"]
       ELSE fleet' = [fleet EXCEPT !.w[p] = "done", !.answer[p] = Outcome(r),
                                   !.lines[p] = Append(@, Classify(r)),
                                   !.wg = @ - 1]
  /\ UNCHANGED serviceVars

\* client.Do returns in the goroutine of port p of makeRequestToAllPorts:
\* the goroutine prints or logs its line and returns (wg.Done()).
FleetAnswer(p, r) ==
  /\ fleet.w[p] = "do"
  /\ fleet.mode = "command"
  /\ fleet' = [fleet EXCEPT !.w[p] = "done", !.answer[p] = Outcome(r),
                            !.lines[p] = Append(@, Classify(r)),
                            !.wg = @ - 1]
  /\ UNCHANGED serviceVars

\* client.Do returns in the goroutine of port p of getAggregatedStats: it
\* logs why the answer is dropped, or appends the decoded response under mu;
\* then it returns (wg.Done()).
FleetStatsAnswer(p, r) ==
  /\ fleet.w[p] = "do"
  /\ fleet.mode = "stats"
  /\ LET o == StatsOutcome(r)
     IN  IF o = "append"
           THEN fleet' = [fleet EXCEPT !.w[p] = "done", !.answer[p] = Outcome(r),
                                       !.responses = Append(@, [Data |-> r.Data]),
                                       !.appended[p] = @ + 1,
                                       !.wg = @ - 1]
           ELSE fleet' = [fleet EXCEPT !.w[p] = "done", !.answer[p] = Outcome(r),
                                       !.lines[p] = Append(@, o),
                                       !.wg = @ - 1]
  /\ UNCHANGED serviceVars

\* (a variant of getAggregatedStats without `if len(responses) == 0`)
FleetOutputNoGuard(f) ==
  IF f.mode = "command"
    THEN [NoOutput EXCEPT !.completed = TRUE]
  ELSE [NoOutput EXCEPT !.aggregated = TRUE,
                        !.count = Len(f.responses),
                        !.agg = aggregateStats(f.responses)]

\* What the tool prints once the workers are joined.
FleetOutput(f) ==
  IF f.mode = "command"
    THEN [NoOutput EXCEPT !.completed = TRUE]
  ELSE IF Len(f.responses) = 0
    THEN [NoOutput EXCEPT !.noResponses = TRUE]
  ELSE [NoOutput EXCEPT !.aggregated = TRUE,
                        !.count = Len(f.responses),
                        !.agg = aggregateStats(f.responses)]

\* (a variant without wg.Wait())
FleetJoinEarly ==
  /\ fleet.pc = "loop"
  /\ fleet.next > NumPorts
  /\ fleet' = [fleet EXCEPT !.pc = "done", !.out = FleetOutput(fleet)]
  /\ UNCHANGED serviceVars

\* wg.Wait() returns after the loop, and the tool prints its output.
FleetJoin ==
  /\ fleet.pc = "loop"
  /\ fleet.next > NumPorts
  /\ fleet.wg = 0
  /\ fleet' = [fleet EXCEPT !.pc = "done", !.out = FleetOutput(fleet)]
  /\ UNCHANGED serviceVars

\* The process of the tool exits.
FleetExit ==
  /\ fleet.pc = "done"
  /\ fleet' = NoFleet
  /\ UNCHANGED serviceVars

\* The goroutine of port p of getAggregatedStats is answered 200 with a body
\* that decodes to data, and appends it under mu.
FleetFloat64Answer(p, data) ==
  /\ fleet.w[p] = "do"
  /\ fleet.mode = "stats"
  /\ fleet' = [fleet EXCEPT !.w[p] = "done",
                            !.answer[p] = [err |-> "nil", status |-> 200,
                                           decodes |-> TRUE],
                            !.responses = Append(@, [Data |-> data]),
                            !.appended[p] = @ + 1,
                            !.wg = @ - 1]
  /\ UNCHANGED serviceVars

\* wg.Wait() returns in getAggregatedStats, and the aggregate of the float64
\* responses is printed.
FleetFloat64Join ==
  /\ fleet.pc = "loop"
  /\ fleet.next > NumPorts
  /\ fleet.wg = 0
  /\ fleet' = [fleet EXCEPT
                 !.pc = "done",
                 !.out = IF Len(fleet.responses) = 0
                           THEN [NoOutput EXCEPT !.noResponses = TRUE]
                           ELSE [NoOutput EXCEPT
                                   !.aggregated = TRUE,
                                   !.count = Len(fleet.responses),
                                   !.agg = aggregateFloat64Stats(fleet.responses)]]
  /\ UNCHANGED serviceVars

\* ------------------------------------------------------------ spam_unary tool
\* The time.Duration values a call may take, and the quantiles p is asked
\* for, in thousandths: 0.50, 0.90, 0.95 and 0.99 as in the log line, and
\* the two ends 0 and 1.
Durations == 1..MaxDuration

QuantileScale == 1000

Quantiles == {0, 500, 900, 950, 990, 1000}

\* math.Ceil(n/d) for n >= 0, d > 0
Ceil(n, d) == (n + d - 1) \div d

\* (a variant that truncates q*N instead of taking the nearest rank)
PercentileTruncate(latencies, q) ==
  IF Len(latencies) = 0 THEN 0
  ELSE LET i == (q * Len(latencies)) \div QuantileScale
           lo == IF i < 0 THEN 0 ELSE i
           hi == IF lo >= Len(latencies) THEN Len(latencies) - 1 ELSE lo
       IN  latencies[hi + 1]

\* The closure p (p is a bound variable of this module, hence the longer
\* name): the element at index ceil(q*N) - 1, clamped to the slice
\* (Go indexes from 0, the sequence from 1). For the quantiles above the
\* float64 product q*N rounds to the exact product wherever that is a whole
\* number, so math.Ceil gives the ceiling of the exact product.
Percentile(latencies, q) ==
  IF Len(latencies) = 0 THEN 0
  ELSE LET i == Ceil(q * Len(latencies), QuantileScale) - 1
           lo == IF i < 0 THEN 0 ELSE i
           hi == IF lo >= Len(latencies) THEN Len(latencies) - 1 ELSE lo
       IN  latencies[hi + 1]

\* sort.Slice(latencies, less): the elements in ascending order.
RECURSIVE Insert(_, _)
Insert(sorted, x) ==
  IF Len(sorted) = 0 THEN <<x>>
  ELSE IF x <= Head(sorted) THEN <<x>> \o sorted
  ELSE <<Head(sorted)>> \o Insert(Tail(sorted), x)

RECURSIVE SortSlice(_)
SortSlice(latencies) ==
  IF Len(latencies) = 0 THEN <<>>
  ELSE Insert(SortSlice(Tail(latencies)), Head(latencies))

\* The tool starts: latencies := make([]time.Duration, 0, *total).
ToolRun ==
  /\ tool.pc = "none"
  /\ tool' = [NoTool EXCEPT !.pc = "run"]
  /\ UNCHANGED <<emitterVars, fleet>>

\* A worker has made a call and appends its duration under latMu.
ToolLatency(dur) ==
  /\ tool.pc = "run"
  /\ Len(tool.latencies) < MaxLatencies
  /\ tool' = [tool EXCEPT !.latencies = Append(@, dur)]
  /\ UNCHANGED <<emitterVars, fleet>>

\* wg.Wait() has returned: the latencies are sorted.
ToolSort ==
  /\ tool.pc = "run"
  /\ tool' = [tool EXCEPT !.pc = "sorted", !.latencies = SortSlice(@)]
  /\ UNCHANGED <<emitterVars, fleet>>

\* p(q) is evaluated on the sorted latencies.
ToolPercentile(q) ==
  /\ tool.pc = "sorted"
  /\ tool' = [tool EXCEPT !.asked = TRUE, !.q = q,
                          !.result = Percentile(tool.latencies, q)]
  /\ UNCHANGED <<emitterVars, fleet>>

\* main returns.
ToolExit ==
  /\ tool.pc = "sorted"
  /\ tool' = NoTool
  /\ UNCHANGED <<emitterVars, fleet>>

\* ------------------------------------------------------------ spam_unary tool: workers
\* The flags -n and -c of a run.
ToolTotals == 0..ToolMaxTotal

ToolConcurrencies == 0..ToolMaxConcurrency

\* A worker before its first job: where it is, the duration and the err of
\* the call that returned, and the slice its append has read.
NewWorker == [pc |-> "range", dur |-> 0, err |-> "none", seen |-> <<>>]

\* latMu.Lock() without mutual exclusion
LatMuFreeNoExclusion == TRUE

\* latMu.Lock() returns only while no worker holds latMu.
LatMuFree == tool.latMu = 0

\* The queue is filled with total jobs and closed, the counters and the
\* latencies slice are made, and concurrency workers are started.
UnaryRun(total, concurrency) ==
  /\ tool.pc = "none"
  /\ tool' = [NoTool EXCEPT !.pc = "work", !.total = total, !.jobs = total,
                            !.w = [i \in 1..concurrency |-> NewWorker]]
  /\ UNCHANGED <<emitterVars, fleet>>

\* for range jobs: worker i takes a job and calls client.Readings.
UnaryTake(i) ==
  /\ tool.pc = "work"
  /\ tool.w[i].pc = "range"
  /\ tool.jobs > 0
  /\ tool' = [tool EXCEPT !.jobs = @ - 1, !.calls = @ + 1, !.w[i].pc = "call"]
  /\ UNCHANGED <<emitterVars, fleet>>

\* for range jobs ends on the closed, empty queue: wg.Done().
UnaryExit(i) ==
  /\ tool.pc = "work"
  /\ tool.w[i].pc = "range"
  /\ tool.jobs = 0
  /\ tool' = [tool EXCEPT !.w[i].pc = "done"]
  /\ UNCHANGED <<emitterVars, fleet>>

\* The call returns, with an error or not: dur := time.Since(t0).
UnaryCallReturn(i, err, dur) ==
  /\ tool.pc = "work"
  /\ tool.w[i].pc = "call"
  /\ tool' = [tool EXCEPT !.w[i].pc = "lock", !.w[i].err = err, !.w[i].dur = dur]
  /\ UNCHANGED <<emitterVars, fleet>>

\* latMu.Lock(), and append reads the slice.
UnaryLock(i) ==
  /\ tool.pc = "work"
  /\ tool.w[i].pc = "lock"
  /\ LatMuFree
  /\ tool' = [tool EXCEPT !.latMu = i, !.w[i].pc = "append",
                          !.w[i].seen = tool.latencies]
  /\ UNCHANGED <<emitterVars, fleet>>

\* latencies = append(latencies, dur) stores the slice read, lengthened by
\* dur; latMu.Unlock().
UnaryAppend(i) ==
  /\ tool.pc = "work"
  /\ tool.w[i].pc = "append"
  /\ tool' = [tool EXCEPT !.latencies = Append(tool.w[i].seen, tool.w[i].dur),
                          !.latMu = 0, !.w[i].pc = "count",
                          !.w[i].seen = <<>>]
  /\ UNCHANGED <<emitterVars, fleet>>

\* atomic.AddUint64(&fail, 1) or atomic.AddUint64(&ok, 1); next job.
UnaryCount(i) ==
  /\ tool.pc = "work"
  /\ tool.w[i].pc = "count"
  /\ tool' = [tool EXCEPT !.fail = IF tool.w[i].err # "nil" THEN @ + 1 ELSE @,
                          !.ok = IF tool.w[i].err = "nil" THEN @ + 1 ELSE @,
                          !.w[i].pc = "range", !.w[i].err = "none",
                          !.w[i].dur = 0]
  /\ UNCHANGED <<emitterVars, fleet>>

\* wg.Wait() returns when every worker is done; the latencies are sorted.
UnaryJoin ==
  /\ tool.pc = "work"
  /\ \A i \in DOMAIN tool.w : tool.w[i].pc = "done"
  /\ tool' = [tool EXCEPT !.pc = "sorted", !.latencies = SortSlice(@)]
  /\ UNCHANGED <<emitterVars, fleet>>

\* ------------------------------------------------------------ system
CallerStep ==
  \/ \E c \in Callers : StartLock(c)
  \/ \E c \in Callers : StartSet(c)
  \/ \E c \in Callers : StopLock(c)
  \/ \E c \in Callers : StopSet(c)
  \/ \E c \in Callers : Return(c)

LoopStep ==
  \/ \E l \in Loops : LoopNewTicker(l)
  \/ \E l \in Loops : LoopInitFreq(l)
  \/ \E l \in Loops : LoopSelect(l)
  \/ \E l \in Loops : LoopStop(l)
  \/ \E l \in Loops : LoopTick(l)
  \/ \E l \in Loops : LoopKeep(l)
  \/ \E l \in Loops : LoopRearm(l)
  \/ \E l \in Loops : LoopRead(l)
  \/ \E l \in Loops : LoopSend(l)
  \/ \E l \in Loops : \E err \in CallOutcomes : LoopCallReturn(l, err)
  \/ \E l \in Loops : LoopCount(l)

Next ==
  \/ CallerStep
  \/ \E c \in Callers : \E s \in DurationInputs : RouterSetFrequency(c, s)
  \/ LoopStep

Spec == Init /\ [][Next]_vars

\* timed: the emitter is started at time 0 and the operator changes the
\* period at most once in a run.
NextTimed ==
  \/ \E c \in Callers : now = 0 /\ StartLock(c)
  \/ \E c \in Callers : StartSet(c)
  \/ \E c \in Callers : StopLock(c)
  \/ \E c \in Callers : StopSet(c)
  \/ \E c \in Callers : Return(c)
  \/ \E c \in Callers : \E s \in DurationInputs :
       trace.sets = <<>> /\ RouterSetFrequency(c, s)
  \/ LoopStep
  \/ \E l \in Loops : TickerFire(l)
  \/ Advance

SpecTimed == InitTimed /\ [][NextTimed]_vars

\* every operation of the emitter, called by one client at a time, which
\* asks for no period that stops the process (see C6)
OpsCaller == 1

OpsDurations ==
  {s \in DurationInputs : ParseDuration(s).err \/ ParseDuration(s).d > 0}

\* ... and whose Config requests leave value and type alone
OpsConfigs == {config \in ConfigInputs : config.value = 0 /\ config.type = ""}

NextOps ==
  \/ StartLock(OpsCaller)
  \/ StartSet(OpsCaller)
  \/ StopLock(OpsCaller)
  \/ StopSet(OpsCaller)
  \/ \E s \in OpsDurations : RouterSetFrequency(OpsCaller, s)
  \/ \E config \in OpsConfigs : Config(OpsCaller, config)
  \/ GetStatsSent(OpsCaller)
  \/ GetStatsFailed(OpsCaller)
  \/ DetailedSent(OpsCaller)
  \/ DetailedFailed(OpsCaller)
  \/ DetailedRead(OpsCaller)
  \/ \E total \in BurstTotals : \E concurrency \in BurstConcurrencies :
       SpamStart(OpsCaller, total, concurrency)
  \/ SpamFill
  \/ SpamWorkers
  \/ WorkerTake
  \/ WorkerExit
  \/ \E err \in CallOutcomes : WorkerReturn(err)
  \/ SpamReturn(OpsCaller)
  \/ Return(OpsCaller)
  \/ LoopStep

SpecOps == Init /\ [][NextOps]_vars

\* Config requests of every kind against the running emitter
NextConfig ==
  \/ StartLock(OpsCaller)
  \/ StartSet(OpsCaller)
  \/ StopLock(OpsCaller)
  \/ StopSet(OpsCaller)
  \/ Return(OpsCaller)
  \/ \E s \in OpsDurations : RouterSetFrequency(OpsCaller, s)
  \/ \E config \in ConfigInputs : Config(OpsCaller, config)
  \/ LoopStep

SpecConfig == Init /\ [][NextConfig]_vars

\* POST /frequency requests of every kind, their responses kept, against
\* the emitter
NextFrequency ==
  \/ StartLock(OpsCaller)
  \/ StartSet(OpsCaller)
  \/ StopLock(OpsCaller)
  \/ StopSet(OpsCaller)
  \/ Return(OpsCaller)
  \/ \E s \in DurationInputs : RouterSetFrequencyRespond(OpsCaller, s)
  \/ LoopStep

SpecFrequency == Init /\ [][NextFrequency]_vars

\* The fleet tool alone, against endpoints that answer in any way.
NextFleet ==
  \/ \E mode \in FleetModes : FleetRun(mode)
  \/ FleetGo
  \/ \E p \in Ports : FleetDo(p)
  \/ \E p \in Ports, r \in CommandAnswers : FleetAnswer(p, r)
  \/ \E p \in Ports, r \in StatsAnswers : FleetStatsAnswer(p, r)
  \/ FleetJoin
  \/ FleetExit

SpecFleet == Init /\ [][NextFleet]_vars

\* The stats subcommand of the fleet tool against endpoints that answer with
\* float64 values of any size, or not at all.
NextFloat64 ==
  \/ FleetRun("stats")
  \/ FleetGo
  \/ \E p \in Ports : FleetDo(p)
  \/ \E p \in Ports, r \in CommandAnswers : FleetStatsAnswer(p, r)
  \/ \E p \in Ports, data \in Float64Samples : FleetFloat64Answer(p, data)
  \/ FleetFloat64Join
  \/ FleetExit

SpecFloat64 == Init /\ [][NextFloat64]_vars

\* The start, stop and frequency subcommands of the fleet tool.
NextCommand ==
  \/ FleetRun("command")
  \/ FleetGo
  \/ \E p \in Ports : FleetDo(p)
  \/ \E p \in Ports, r \in CommandAnswers : FleetAnswer(p, r)
  \/ FleetJoin
  \/ FleetExit

\* Every goroutine the Go scheduler has started runs on, and client.Do
\* returns within the client's timeout.
CommandFairness ==
  /\ WF_vars(FleetGo)
  /\ \A p \in Ports : WF_vars(FleetDo(p))
  /\ \A p \in Ports : WF_vars(\E r \in CommandAnswers : FleetAnswer(p, r))
  /\ WF_vars(FleetJoin)

SpecCommand == Init /\ [][NextCommand]_vars /\ CommandFairness

\* The spam_unary tool, from its recorded latencies to its percentiles.
NextTool ==
  \/ ToolRun
  \/ \E dur \in Durations : ToolLatency(dur)
  \/ ToolSort
  \/ \E q \in Quantiles : ToolPercentile(q)
  \/ ToolExit

SpecTool == Init /\ [][NextTool]_vars

\* The spam_unary tool with its workers: runs of every -n and -c, whose
\* calls succeed, fail or time out.
ToolWorkers == 1..ToolMaxConcurrency

NextUnary ==
  \/ \E total \in ToolTotals : \E concurrency \in ToolConcurrencies :
       UnaryRun(total, concurrency)
  \/ \E i \in ToolWorkers : i \in DOMAIN tool.w /\ UnaryTake(i)
  \/ \E i \in ToolWorkers : i \in DOMAIN tool.w /\ UnaryExit(i)
  \/ \E i \in ToolWorkers : \E err \in CallOutcomes \cup {"timeout"} :
       \E dur \in Durations : i \in DOMAIN tool.w /\ UnaryCallReturn(i, err, dur)
  \/ \E i \in ToolWorkers : i \in DOMAIN tool.w /\ UnaryLock(i)
  \/ \E i \in ToolWorkers : i \in DOMAIN tool.w /\ UnaryAppend(i)
  \/ \E i \in ToolWorkers : i \in DOMAIN tool.w /\ UnaryCount(i)
  \/ UnaryJoin
  \/ ToolExit

SpecUnary == Init /\ [][NextUnary]_vars

\* GetStats and GetDetailedStats against the running emitter
NextStats ==
  \/ StartLock(OpsCaller)
  \/ StartSet(OpsCaller)
  \/ StopLock(OpsCaller)
  \/ StopSet(OpsCaller)
  \/ Return(OpsCaller)
  \/ \E s \in OpsDurations : RouterSetFrequency(OpsCaller, s)
  \/ GetStatsSent(OpsCaller)
  \/ GetStatsFailed(OpsCaller)
  \/ DetailedSent(OpsCaller)
  \/ DetailedFailed(OpsCaller)
  \/ DetailedRead(OpsCaller)
  \/ LoopStep

SpecStats == Init /\ [][NextStats]_vars

\* GetStats and GetDetailedStats called by one client while another calls
\* Start, Stop and SetFrequency.  A goroutine inside a critical section
\* leaves it, the atomic loads of a stats call are made, and a reader
\* waiting in dg.mu.RLock() is admitted when the writer unlocks
\* (sync.RWMutex wakes the blocked readers first).  The emitter is started
\* once in a run.
StatsCaller == 1

OtherCaller == 2

NextStatsRace ==
  \/ GetStatsSent(StatsCaller)
  \/ GetStatsFailed(StatsCaller)
  \/ DetailedSent(StatsCaller)
  \/ DetailedFailed(StatsCaller)
  \/ DetailedRead(StatsCaller)
  \/ Return(StatsCaller)
  \/ (isRunning \/ hist.starts = 0) /\ StartLock(OtherCaller)
  \/ StartSet(OtherCaller)
  \/ StopLock(OtherCaller)
  \/ StopSet(OtherCaller)
  \/ Return(OtherCaller)
  \/ \E s \in OpsDurations : RouterSetFrequency(OtherCaller, s)
  \/ LoopStep

SpecStatsRace ==
  /\ Init
  /\ [][NextStatsRace]_vars
  /\ WF_vars(StartSet(OtherCaller))
  /\ WF_vars(StopSet(OtherCaller))
  /\ WF_vars(GetStatsFailed(StatsCaller))
  /\ WF_vars(DetailedFailed(StatsCaller))
  /\ SF_vars(DetailedRead(StatsCaller))

\* Start, Stop and IsRunning called by every client, beside the loops, whose
\* period one of the clients changes
NextRunning ==
  \/ \E c \in Callers : StartLock(c)
  \/ \E c \in Callers : StartSet(c)
  \/ \E c \in Callers : StopLock(c)
  \/ \E c \in Callers : StopSet(c)
  \/ \E c \in Callers : IsRunningCall(c)
  \/ \E c \in Callers : IsRunning(c)
  \/ \E c \in Callers : Return(c)
  \/ \E s \in OpsDurations : RouterSetFrequency(OtherCaller, s)
  \/ LoopStep

SpecRunning == Init /\ [][NextRunning]_vars

\* every operation that takes dg.mu, beside the loops: one client calls
\* Config, IsRunning and GetDetailedStats, the other Start (once in a run),
\* Stop and SetFrequency
NextLock ==
  \/ \E config \in OpsConfigs : Config(StatsCaller, config)
  \/ IsRunningCall(StatsCaller)
  \/ IsRunning(StatsCaller)
  \/ DetailedSent(StatsCaller)
  \/ DetailedFailed(StatsCaller)
  \/ DetailedRead(StatsCaller)
  \/ Return(StatsCaller)
  \/ (isRunning \/ hist.starts = 0) /\ StartLock(OtherCaller)
  \/ StartSet(OtherCaller)
  \/ StopLock(OtherCaller)
  \/ StopSet(OtherCaller)
  \/ Return(OtherCaller)
  \/ \E s \in OpsDurations : RouterSetFrequency(OtherCaller, s)
  \/ LoopStep

SpecLock == Init /\ [][NextLock]_vars

\* GetDetailedStats against the emitter while the wall clock runs, for
\* MaxUptimeSteps steps of 100 ms
MaxUptimeSteps == 10

NextUptime ==
  \/ StartLock(OpsCaller)
  \/ StartSet(OpsCaller)
  \/ StopLock(OpsCaller)
  \/ StopSet(OpsCaller)
  \/ Return(OpsCaller)
  \/ \E s \in OpsDurations :
       trace.sets = <<>> /\ RouterSetFrequency(OpsCaller, s)
  \/ DetailedSent(OpsCaller)
  \/ DetailedFailed(OpsCaller)
  \/ DetailedRead(OpsCaller)
  \/ LoopStep
  \/ \E l \in Loops : TickerFire(l)
  \/ now < MaxUptimeSteps * 100 /\ Advance

SpecUptime == InitTimed /\ [][NextUptime]_vars

\* Bursts alone: POST /spam requests of one client, one at a time, whose
\* calls succeed, fail or time out.  The scheduler is fair to the workers
\* and to the handler, and every call returns (within its timeout).
BurstMaxTotal == 3
BurstMaxConcurrency == 3
BurstOutcomes == CallOutcomes \cup {"timeout"}

\* req.Total and req.Concurrency are ints bound from the JSON body as they
\* come: a negative total and a concurrency of 0 are among the requests.
SpamTotals == {-1} \cup 0..BurstMaxTotal
SpamConcurrencies == 0..BurstMaxConcurrency

NextBurst ==
  \/ \E total \in SpamTotals : \E concurrency \in SpamConcurrencies :
       SpamStart(OpsCaller, total, concurrency)
  \/ SpamFill
  \/ SpamWorkers
  \/ WorkerTake
  \/ WorkerExit
  \/ \E err \in BurstOutcomes : WorkerReturn(err)
  \/ SpamReturn(OpsCaller)
  \/ Return(OpsCaller)

SpecBurst ==
  /\ Init
  /\ [][NextBurst]_vars
  /\ WF_vars(SpamFill)
  /\ WF_vars(SpamWorkers)
  /\ WF_vars(WorkerTake)
  /\ WF_vars(WorkerExit)
  /\ WF_vars(\E err \in BurstOutcomes : WorkerReturn(err))
  /\ WF_vars(SpamReturn(OpsCaller))

\* The emitter under a fair scheduler: a goroutine that can take a step
\* eventually takes one.  This holds for each emission loop (its ticker
\* fires, its call returns within requestTimeout) and for a handler inside
\* the critical section of Start or Stop; when clients send requests is left
\* open.
LoopRun(l) ==
  \/ LoopNewTicker(l)
  \/ LoopInitFreq(l)
  \/ LoopSelect(l)
  \/ LoopStop(l)
  \/ LoopTick(l)
  \/ LoopKeep(l)
  \/ LoopRearm(l)
  \/ LoopRead(l)
  \/ LoopSend(l)
  \/ \E err \in CallOutcomes : LoopCallReturn(l, err)
  \/ LoopCount(l)

NextLive ==
  \/ StartLock(OpsCaller)
  \/ StartSet(OpsCaller)
  \/ StopLock(OpsCaller)
  \/ StopSet(OpsCaller)
  \/ Return(OpsCaller)
  \/ \E s \in OpsDurations : RouterSetFrequency(OpsCaller, s)
  \/ LoopStep

SpecLive ==
  /\ Init
  /\ [][NextLive]_vars
  /\ \A l \in Loops : WF_vars(LoopRun(l))
  /\ WF_vars(StartSet(OpsCaller))
  /\ WF_vars(StopSet(OpsCaller))

\* ================================================================ claims
Live(l) == loops[l].pc \notin {"none", "done"}

\* C1: Start() called while the emitter is Running returns false and changes
\* nothing: isRunning, startTime, stopChan (and which channels are closed),
\* frequency, the payload and the counters are as before the call, and no
\* further emission loop is launched.
C1_StartWhileRunning ==
  [][\A c \in Callers :
       (pc[c] = "idle" /\ pc'[c] \in {"StartSet", "StartDone"} /\ isRunning)
         => /\ pc'[c] = "StartDone"
            /\ ret'[c] = [ok |-> FALSE]
            /\ UNCHANGED <<dgVars, mu, nchan, closed, crashed, loops, hist>>]_vars

\* A Start() has returned false on a Running emitter whose loop has counted
\* a call.
C1_Witness ==
  \E c \in Callers :
    /\ pc[c] = "StartDone" /\ ret[c] = [ok |-> FALSE]
    /\ isRunning /\ Live(stopChan)
    /\ totalSent + totalFailed > 0

\* C2: Stop() on a Running emitter returns true, marks it Stopped and closes
\* the stop channel; Stop() on a Stopped emitter (before any Start, or after
\* another Stop) returns false and changes nothing; between two successful
\* Starts at most one Stop returns true.
C2_Stop ==
  /\ [][\A c \in Callers :
         (pc[c] = "idle" /\ pc'[c] \in {"StopSet", "StopDone"})
           => IF isRunning
                THEN pc'[c] = "StopSet"
                ELSE /\ pc'[c] = "StopDone"
                     /\ ret'[c] = [ok |-> FALSE]
                     /\ UNCHANGED <<dgVars, mu, nchan, closed, crashed, loops, hist>>]_vars
  /\ [][\A c \in Callers :
         (pc[c] = "StopSet" /\ pc'[c] # "StopSet")
           => /\ pc'[c] = "StopDone"
              /\ ret'[c] = [ok |-> TRUE]
              /\ ~isRunning'
              /\ stopChan' = stopChan
              /\ stopChan \notin closed
              /\ closed' = closed \cup {stopChan}]_vars
  /\ [](hist.stops <= hist.starts /\ hist.starts <= hist.stops + 1)

\* A second Stop has returned false right after a Stop that returned true,
\* both of them still holding their answers.
C2_Witness ==
  \E c1, c2 \in Callers :
    /\ pc[c1] = "StopDone" /\ ret[c1] = [ok |-> TRUE]
    /\ pc[c2] = "StopDone" /\ ret[c2] = [ok |-> FALSE]
    /\ hist.starts = 1 /\ hist.stops = 1

\* C3: the booleans returned by concurrent Start() and Stop() calls are those
\* of the calls run one at a time in the order of their critical sections:
\* a Start returns true exactly when it found the emitter Stopped and leaves
\* it Running, a Stop returns true exactly when it found it Running and
\* leaves it Stopped, no two calls are in their critical sections together,
\* so of two concurrent Starts (or two concurrent Stops) exactly one
\* returns true.
C3_Linearizable ==
  /\ [][\A c \in Callers :
         (pc'[c] = "StartDone" /\ pc[c] # "StartDone")
           => (ret'[c] = [ok |-> ~isRunning]) /\ isRunning']_vars
  /\ [][\A c \in Callers :
         (pc'[c] = "StopDone" /\ pc[c] # "StopDone")
           => (ret'[c] = [ok |-> isRunning]) /\ ~isRunning']_vars
  /\ [](\A c1, c2 \in Callers :
          (c1 # c2 /\ pc[c1] \in {"StartSet", "StopSet"})
            => pc[c2] \notin {"StartSet", "StopSet"})
  /\ [](\A c1, c2 \in Callers :
          (c1 # c2 /\ pc[c1] = pc[c2] /\ pc[c1] \in {"StartDone", "StopDone"}
             /\ ret[c1] = [ok |-> TRUE] /\ ret[c2] = [ok |-> TRUE])
            => hist.starts + hist.stops >= 3)

\* Two Starts raced on a Stopped emitter: one holds true, the other false.
C3_Witness ==
  \E c1, c2 \in Callers :
    /\ pc[c1] = "StartDone" /\ ret[c1] = [ok |-> TRUE]
    /\ pc[c2] = "StartDone" /\ ret[c2] = [ok |-> FALSE]
    /\ hist.starts = 1 /\ hist.stops = 0

\* C4: at most one emission loop serves the emitter: once a later Start has
\* launched its loop, no loop of an earlier Start is parked in its select on
\* a stop channel that is still open (which is the state of a loop that
\* keeps running), whatever the interleaving of Start, Stop and Start.
C4_SingleLoop ==
  \A l1, l2 \in Loops :
    (l1 < l2 /\ loops[l2].pc # "none")
      => ~(loops[l1].pc = "wait" /\ loops[l1].waitChan \notin closed)

\* C5: after a successful Stop the loop that was running terminates at its
\* next wake-up: a loop that has woken once while the stop channel of its own
\* Start was closed takes no further tick.
C5_StopsAtNextWakeUp ==
  [][\A l \in Loops :
       loops[l].late => ~(loops[l].pc = "wait" /\ loops'[l].pc = "tick")]_vars

\* C6: once emission has started the configured period is strictly positive
\* in every state, and no loop finds a non-positive period when it arms or
\* re-arms its ticker.
C6_PeriodPositive ==
  /\ hist.starts > 0 => frequency > 0
  /\ ~crashed

\* C7: whenever a loop has handled a tick (compared the configured period
\* with its own and re-armed on a difference), the period of its ticker is
\* the configured period -- for every interleaving of SetFrequency with the
\* loop, the configured period being a valid (positive) one.
C7_TickerFollowsPeriod ==
  [][\A l \in Loops :
       (loops[l].pc = "tick" /\ loops'[l].pc = "send" /\ frequency > 0)
         => loops'[l].ticker = frequency']_vars

\* The timing scenario: one Start at time 0 with the default period of 1 s,
\* no Stop, SetFrequency(500ms) called at 1.2 s, and three ticks received.
C8_Scenario ==
  /\ hist.starts = 1 /\ hist.stops = 0 /\ startTime = 0
  /\ trace.sets = <<[at |-> 1200, d |-> 500]>>
  /\ Len(trace.ticks) >= 3

\* C8 (as stated): in the scenario the 3rd tick lands within [1.5 s, 2.0 s]
\* of the start.
C8_ThirdTickAsStated ==
  C8_Scenario => (trace.ticks[3] >= 1500 /\ trace.ticks[3] <= 2000)

\* C8 (amended): in the scenario the ticks land at 1.0 s, at 2.0 s (the tick
\* of the old period, at which the loop re-arms) and at 2.5 s: the 3rd tick
\* is at 2.5 s, not at 3.0 s.
C8_ThirdTick ==
  C8_Scenario => (trace.ticks[1] = 1000 /\ trace.ticks[2] = 2000
                  /\ trace.ticks[3] = 2500)

\* The scenario has run up to its 3rd tick, and the loop has re-armed to 500 ms.
C8_Witness ==
  /\ C8_Scenario
  /\ loops[1].ticker = 500 /\ loops[1].currentFreq = 500
  /\ now >= 2500

\* C9: every completed ReadingSink call of an emission loop is counted exactly
\* once, in sent if it returned no error and in failed otherwise (an error of
\* the sink or the timeout); the counters change in no other way; and a call
\* is made only for a tick taken in the select: after a call, failed or not,
\* the loop goes back to its select and does not call again before a tick.
C9_CountedOnce ==
  /\ [][\A l \in Loops :
         (loops[l].pc = "count" /\ loops'[l].pc # "count")
           => /\ loops'[l].pc = "select"
              /\ IF loops[l].err = "nil"
                   THEN totalSent' = totalSent + 1 /\ totalFailed' = totalFailed
                   ELSE totalFailed' = totalFailed + 1 /\ totalSent' = totalSent]_vars
  /\ [][(totalSent' # totalSent \/ totalFailed' # totalFailed)
          => \E l \in Loops : loops[l].pc = "count" /\ loops'[l].pc = "select"]_vars
  /\ [][\A l \in Loops :
         /\ (loops'[l].pc = "count" /\ loops[l].pc # "count")
              => (loops[l].pc = "call" /\ loops'[l].err \in CallOutcomes)
         /\ (loops'[l].pc = "call" /\ loops[l].pc # "call") => loops[l].pc = "send"
         /\ (loops'[l].pc = "send" /\ loops[l].pc # "send") => loops[l].pc = "tick"
         /\ (loops'[l].pc = "tick" /\ loops[l].pc # "tick") => loops[l].pc = "wait"]_vars

\* A loop has had one call fail and one call succeed, each counted once, and
\* is back in its select.
C9_Witness ==
  /\ totalSent = 1 /\ totalFailed = 1
  /\ hist.starts = 1
  /\ loops[1].pc = "wait"

\* C10: no step of Start, Stop, SetFrequency, Config, GetStats,
\* GetDetailedStats, a burst or the emission loops lowers the sent or the
\* failed counter.
C10_CountersMonotone ==
  [][totalSent' >= totalSent /\ totalFailed' >= totalFailed]_vars

\* A second run has been started after a Stop with the totals of the first
\* run kept, and a burst has returned its own counts meanwhile.
C10_Witness ==
  /\ hist.starts = 2 /\ hist.stops = 1
  /\ totalSent + totalFailed = MaxCalls
  /\ pc[OpsCaller] = "SpamDone"
  /\ ret[OpsCaller].successful + ret[OpsCaller].failed > 0
  /\ payload # DefaultPayload
  /\ frequency # DefaultFrequency

\* C11: while the emitter stays Running, sent + failed keeps increasing (up
\* to the number of calls of a run): from every state in which it is Running
\* with n calls counted, it is later Stopped or has more than n calls
\* counted; and counting a call, failed or not, sends the loop back to its
\* select with its ticker running.
C11_Progress ==
  /\ \A n \in 0..(MaxCalls - 1) :
       (isRunning /\ totalSent + totalFailed = n)
         ~> (~isRunning \/ totalSent + totalFailed > n)
  /\ [][\A l \in Loops :
         (loops[l].pc = "count" /\ loops'[l].pc # "count")
           => /\ loops'[l].pc = "select"
              /\ loops'[l].ticker = loops[l].ticker
              /\ loops[l].ticker > 0
              /\ ~crashed']_vars

\* After a failed call the loop of a Running emitter has its next call in
\* flight.
C11_Witness ==
  /\ isRunning /\ hist.starts = 1 /\ hist.stops = 0
  /\ totalFailed = 1 /\ totalSent = 0
  /\ loops[1].pc = "call"

\* The zero values of the fields of GeneratorConfig
ZeroConfig == [value |-> 0, type |-> "", id1 |-> "", id2 |-> 0]

\* C12: a step that changes the payload is a Config(update) that sets exactly
\* the fields whose value in the update is non-zero / non-empty to the given
\* value and leaves every other field as it was; it leaves the period, the
\* running state, the start instant, the stop channel and the counters as
\* they were.
C12_ConfigPartial ==
  [][payload' # payload
       => /\ \E config \in ConfigInputs :
               \A f \in DOMAIN payload :
                 payload'[f] = IF config[f] # ZeroConfig[f] THEN config[f]
                                                            ELSE payload[f]
          /\ UNCHANGED <<isRunning, stopChan, frequency, startTime,
                         totalSent, totalFailed>>]_vars

\* Two partial updates have been merged into the payload of a Running emitter:
\* value and type from one, id2 from the other, id1 still the default.
C12_Witness ==
  /\ payload = [value |-> 20, type |-> "HUM", id1 |-> "ABCDEFGH", id2 |-> 7]
  /\ isRunning
  /\ totalSent + totalFailed > 0

\* The payloads the emitter can ever be configured with: the default one and
\* whatever Config requests make of it.
RECURSIVE ConfigClosure(_)
ConfigClosure(S) ==
  LET T == S \cup {ApplyConfig(p, config) : p \in S, config \in ConfigInputs}
  IN IF T = S THEN S ELSE ConfigClosure(T)

Configurations == ConfigClosure({DefaultPayload})

\* C13: the reading of every call in flight carries the four payload fields
\* of one configuration state of the emitter: it never mixes fields from
\* before and after a Config() call.
C13_ReadingFromOneConfig ==
  \A l \in Loops :
    loops[l].pc = "call"
      => [value |-> loops[l].reading.value, type |-> loops[l].reading.type,
          id1 |-> loops[l].reading.id1, id2 |-> loops[l].reading.id2]
           \in Configurations

\* C14: the pair (sent, failed) a GetStats or GetDetailedStats call has
\* loaded is a pair of counter values that held together at some instant
\* between its first load and its second.
C14_Snapshot ==
  \A c \in Callers :
    pc[c] \in {"StatsDone", "DetailedRead"}
      => <<ret[c].sent, ret[c].failed>> \in ret[c].held

\* C15: the report GetDetailedStats builds has Total_Requests = Total_Sent +
\* Total_Failed (the two counters it loaded); Uptime is now minus the start
\* instant when the emitter is Running and 0 when it is Stopped; Overall_RPS
\* is Total_Requests / Uptime when Uptime > 0 and 0 otherwise; Is_Running and
\* Configured_FreqMs are the state and the period of the instant of the read.
C15_Report ==
  [][\A c \in Callers :
       (pc[c] = "DetailedRead" /\ pc'[c] = "DetailedDone")
         => LET r == ret'[c]
            IN /\ r.Total_Sent = ret[c].sent
               /\ r.Total_Failed = ret[c].failed
               /\ r.Total_Requests = r.Total_Sent + r.Total_Failed
               /\ r.Uptime = IF isRunning THEN TimeNow - startTime ELSE 0
               /\ r.Uptime >= 0
               /\ r.Overall_RPS =
                    IF r.Uptime > 0
                      THEN [num |-> r.Total_Requests, den |-> r.Uptime]
                      ELSE [num |-> 0, den |-> 1]
               /\ r.Is_Running = isRunning
               /\ r.Configured_FreqMs = frequency]_vars

C15_Witness ==
  /\ pc[OpsCaller] = "DetailedDone"
  /\ ret[OpsCaller].Is_Running
  /\ ret[OpsCaller].Uptime > 0
  /\ ret[OpsCaller].Total_Requests > 0
  /\ ret[OpsCaller].Overall_RPS.num > 0
  /\ ret[OpsCaller].Configured_FreqMs = 500

\* the step on which SpamRequests, called by c with concurrency >= 1,
\* produces its result
BurstReturns(c) ==
  /\ pc[c] = "Spam"
  /\ pc'[c] = "SpamDone"
  /\ burst.concurrency >= 1

\* C16: while a burst runs every job token is either still queued or was
\* received by exactly one worker, which made one call for it, and every call
\* is in flight or counted once as successful or failed; so when a burst of
\* total = N with concurrency >= 1 returns, exactly N calls have been made
\* and successful + failed = N, whatever the outcomes of the calls.
C16_AllCounted ==
  /\ [](burst.pc = "run"
          => /\ burst.jobs + burst.calls = burst.total
             /\ burst.calls = burst.busy + burst.ok + burst.fail)
  /\ [][\A c \in Callers :
          BurstReturns(c)
            => /\ burst.calls = burst.total
               /\ ret'[c].total_requests = burst.total
               /\ ret'[c].successful + ret'[c].failed = burst.total]_vars

C16_Witness ==
  /\ pc[OpsCaller] = "SpamDone"
  /\ ret[OpsCaller].total_requests = 3
  /\ ret[OpsCaller].successful = 1
  /\ ret[OpsCaller].failed = 2

\* C17: during a burst the number of calls in flight never exceeds the
\* requested concurrency.
C17_AtMostConcurrency == burst.busy <= burst.concurrency

C17_Witness ==
  /\ burst.pc = "run"
  /\ burst.concurrency = 2
  /\ burst.busy = 2
  /\ burst.jobs > 0

\* C18: a burst (concurrency >= 1) produces its result only when every token
\* has been taken, no call is in flight, no worker is left and every one of
\* the total calls has been counted; the result carries those counts, and
\* once it is produced no worker of the burst remains to change them.
C18_Join ==
  /\ [](burst.pc = "none" => burst.busy = 0 /\ burst.idle = 0)
  /\ [][\A c \in Callers :
          BurstReturns(c)
            => /\ burst.jobs = 0
               /\ burst.busy = 0
               /\ burst.idle = 0
               /\ burst.ok + burst.fail = burst.total
               /\ ret'[c].successful = burst.ok
               /\ ret'[c].failed = burst.fail
               /\ burst'.pc = "none"]_vars

C18_Witness ==
  /\ pc[OpsCaller] = "SpamDone"
  /\ ret[OpsCaller].total_requests = 2
  /\ ret[OpsCaller].successful = 2
  /\ ret[OpsCaller].duration_ms = 2

C20_Terminates ==
  /\ (pc[OpsCaller] = "Spam" /\ burst.concurrency >= 1)
       ~> (pc[OpsCaller] = "SpamDone")
  /\ [][(burst.pc = "fill" /\ burst.jobs < burst.total) => ENABLED SpamFill]_vars
  /\ [][(burst.pc = "run" /\ burst'.pc = "run" /\ burst.jobs = 0
           /\ burst'.idle < burst.idle)
          => burst'.calls = burst.calls /\ burst'.busy = burst.busy]_vars

C20_Witness ==
  /\ burst.pc = "run"
  /\ burst.total = 1
  /\ burst.concurrency = 3
  /\ burst.idle = 0
  /\ burst.busy = 0
  /\ burst.calls = 1

\* C21: a burst request with concurrency <= 0 or total < 0 is rejected: no
\* step produces the result of a burst (counts, duration, throughput) for
\* such a request.
C21_InvalidRejected ==
  [][\A c \in Callers :
       (pc[c] = "Spam" /\ pc'[c] = "SpamDone")
         => burst.concurrency >= 1 /\ burst.total >= 0]_vars

\* C22: a frequency request whose duration string does not parse is answered
\* 400 and changes nothing: the period, the running state, the start instant,
\* the stop channel, the payload and the counters are as before; and a
\* request is answered 400 only if its string does not parse.
C22_BadDurationRejected ==
  [][\A c \in Callers :
       (pc[c] = "idle" /\ pc'[c] = "FreqDone")
         => /\ ret'[c].status \in {StatusOK, StatusBadRequest}
            /\ ret'[c].status = StatusBadRequest
                 => UNCHANGED <<frequency, isRunning, startTime, stopChan,
                                payload, totalSent, totalFailed, loops>>
            /\ ret'[c].status = StatusOK
                 => \E s \in DurationInputs :
                      /\ ~ParseDuration(s).err
                      /\ frequency' = ParseDuration(s).d]_vars

\* A request with an unparsable string has been answered 400 by a Running
\* emitter whose period was changed before and is still the changed one.
C22_Witness ==
  /\ pc[OpsCaller] = "FreqDone"
  /\ ret[OpsCaller].status = StatusBadRequest
  /\ isRunning
  /\ frequency = 500
  /\ totalSent + totalFailed > 0

\* ------------------------------------------------------------ fleet tool: claims
Failed(r) == r.err # "nil" \/ r.status < 200 \/ r.status >= 300

\* C23: in command mode every port is sent exactly one request, never a
\* second one, whatever the other ports answer: no port's client.Do is made
\* twice, when the tool has finished every port has had its one request, and
\* from any moment of a run the request to each port is eventually made.
C23_EveryPortOnce ==
  /\ [](fleet.mode = "command" =>
          /\ \A p \in Ports : fleet.sent[p] <= 1
          /\ fleet.pc = "done" => \A p \in Ports : fleet.sent[p] = 1)
  /\ \A p \in Ports :
       (fleet.mode = "command" /\ fleet.pc = "loop") ~> (fleet.sent[p] = 1)

\* C23 witness: the tool has finished a command run in which port 1 timed
\* out and port 2 answered 500, and port 3 still got its request and
\* succeeded.
C23_Witness ==
  /\ fleet.mode = "command" /\ fleet.pc = "done"
  /\ fleet.answer[1].err = "timeout"
  /\ fleet.answer[2].err = "nil" /\ fleet.answer[2].status = 500
  /\ fleet.answer[3].err = "nil" /\ fleet.answer[3].status = 200
  /\ \A p \in Ports : fleet.sent[p] = 1

\* C24: the tool prints its completion line, its "no responses" line or its
\* aggregate only when the goroutine of every port has finished with an
\* answer, and once the output is made no response is appended any more.
C24_JoinBeforeOutput ==
  /\ [](fleet.pc = "done" =>
          /\ \A p \in Ports : fleet.w[p] = "done" /\ fleet.answer[p] # NoAnswer
          /\ fleet.out.completed \/ fleet.out.noResponses \/ fleet.out.aggregated)
  /\ [][fleet.pc = "done" =>
          fleet'.pc = "none" \/ fleet'.responses = fleet.responses]_vars

\* C24 witness: a stats run has printed the aggregate of two responses
\* after the third port's request timed out.
C24_Witness ==
  /\ fleet.mode = "stats" /\ fleet.pc = "done"
  /\ fleet.out.aggregated /\ fleet.out.count = 2
  /\ \E p \in Ports : fleet.answer[p].err = "timeout"

\* C25: in command mode a port whose goroutine has finished has exactly one
\* line, and that line is the success line exactly when client.Do gave no
\* error and the status is in 200..299; otherwise it is a failure line of
\* that port (the logged error, or the HTTP status line).
C25_ReportedOnce ==
  fleet.mode = "command" =>
    \A p \in Ports :
      /\ Len(fleet.lines[p]) <= 1
      /\ fleet.w[p] = "done" =>
           /\ Len(fleet.lines[p]) = 1
           /\ fleet.lines[p][1] = "success" <=> ~Failed(fleet.answer[p])
           /\ Failed(fleet.answer[p]) =>
                fleet.lines[p][1] = (IF fleet.answer[p].err # "nil"
                                       THEN "error" ELSE "http")

\* C25 witness: a finished command run with a 201 reported as success, a 404
\* reported with its status and a refused connection logged.
C25_Witness ==
  /\ fleet.mode = "command" /\ fleet.pc = "done"
  /\ fleet.answer[1].status = 201 /\ fleet.lines[1] = <<"success">>
  /\ fleet.answer[2].status = 404 /\ fleet.lines[2] = <<"http">>
  /\ fleet.answer[3].err = "refused" /\ fleet.lines[3] = <<"error">>

\* C26: in stats mode a port whose goroutine has finished has appended a
\* response exactly when it answered, with a status in 200..299 and a body
\* that decodes; each such port appended one response, and the count printed
\* with the aggregate is the number of such ports.
C26_IncludedIff2xx ==
  fleet.mode = "stats" =>
    /\ \A p \in Ports :
         /\ fleet.appended[p] <= 1
         /\ fleet.w[p] = "done" =>
              (fleet.appended[p] = 1 <=>
                 ~Failed(fleet.answer[p]) /\ fleet.answer[p].decodes)
    /\ fleet.out.aggregated =>
         fleet.out.count =
           Cardinality({p \in Ports : ~Failed(fleet.answer[p])
                                        /\ fleet.answer[p].decodes})

\* C27: a stats run that ends with no response appended prints "No
\* successful responses received" and computes no aggregate; and
\* aggregateStats of an empty list is the aggregate whose every field is 0.
C27_NoResponses ==
  /\ (fleet.mode = "stats" /\ fleet.pc = "done" /\ Len(fleet.responses) = 0) =>
       /\ fleet.out.noResponses
       /\ ~fleet.out.aggregated
       /\ fleet.out.agg = NoAggregate
  /\ LET agg == aggregateStats(<<>>)
     IN  /\ \A m \in Metrics :
               /\ agg[m].Min = 0 /\ agg[m].Max = 0
               /\ agg[m].Avg.class = "finite" /\ agg[m].Avg.num = 0
               /\ m \in Totalled => agg[m].Total = 0
         /\ agg["IsRunning"] = [Running |-> 0, Total |-> 0]

\* C27 witness: a finished stats run in which one port timed out, one
\* answered 500 and one answered 200 with a body that does not decode.
C27_Witness ==
  /\ fleet.mode = "stats" /\ fleet.pc = "done"
  /\ fleet.out.noResponses
  /\ fleet.answer[1].err = "timeout"
  /\ fleet.answer[2].status = 500
  /\ fleet.answer[3].status = 200 /\ ~fleet.answer[3].decodes

\* The values of metric m in the responses that were aggregated.
Values(m) == [i \in 1..Len(fleet.responses) |-> fleet.responses[i].Data[m]]

RECURSIVE SumSeq(_)
SumSeq(vs) == IF Len(vs) = 0 THEN 0 ELSE vs[1] + SumSeq(Tail(vs))

\* Avg of metric m is the sum of its values over the k responses, and lies
\* between Min and Max (the fraction num/den has den > 0).
AvgBetween(agg, m, k) ==
  LET avg == agg[m].Avg
  IN  /\ avg.class = "finite" /\ avg.den > 0
      /\ avg.num * k = SumSeq(Values(m)) * avg.den
      /\ agg[m].Min * avg.den <= avg.num
      /\ avg.num <= agg[m].Max * avg.den

\* Total of metric m is k times its Avg.
TotalIsKAvg(agg, m, k) ==
  /\ "Total" \in DOMAIN agg[m]
  /\ agg[m].Total * agg[m].Avg.den = k * agg[m].Avg.num

C29_TrueMinMax ==
  fleet.out.aggregated =>
    /\ \A m \in Metrics :
         LET vs == Values(m)
             a == fleet.out.agg[m]
         IN  /\ \E i \in DOMAIN vs : vs[i] = a.Min
             /\ \E i \in DOMAIN vs : vs[i] = a.Max
             /\ \A i \in DOMAIN vs : a.Min <= vs[i] /\ vs[i] <= a.Max
    /\ (Len(fleet.responses) = 3
          /\ {Values("TotalSent")[i] : i \in 1..3} = {10, 20, 30}) =>
         LET a == fleet.out.agg["TotalSent"]
         IN  /\ a.Min = 10 /\ a.Max = 30 /\ a.Total = 60
             /\ a.Avg.num = 20 * a.Avg.den

\* C29 witness: the three ports answered with TotalSent 20, 30 and 10 (in
\* the order the responses were appended) and the aggregate is printed.
C29_Witness ==
  /\ fleet.out.aggregated
  /\ Len(fleet.responses) = 3
  /\ Values("TotalSent") = <<20, 30, 10>>
  /\ fleet.out.agg["TotalSent"].Min = 10
  /\ fleet.out.agg["TotalSent"].Max = 30

\* ------------------------------------------------------------ spam_unary tool: claims
\* C30: on the sorted latencies (an ascending rearrangement of the recorded
\* ones) p(q) is an element of the slice, the one of nearest rank: its rank i
\* (counted from 1) is the least with i >= q*N, at least 1 and at most N.
\* p(1) is the last element, and on an empty slice every p(q) is 0.
C30_NearestRank ==
  /\ tool.pc = "sorted" =>
       \A i \in 1..(Len(tool.latencies) - 1) :
         tool.latencies[i] <= tool.latencies[i + 1]
  /\ tool.asked =>
       LET N == Len(tool.latencies)
       IN  /\ N = 0 => tool.result = 0
           /\ N > 0 =>
                \E i \in 1..N :
                  /\ tool.result = tool.latencies[i]
                  /\ i * QuantileScale >= tool.q * N \/ i = N
                  /\ i = 1 \/ (i - 1) * QuantileScale < tool.q * N
           /\ (N > 0 /\ tool.q = QuantileScale) =>
                tool.result = tool.latencies[N]

\* C30 witness: the median of five latencies 1, 1, 2, 3, 4 is asked for and
\* is the third of them, 2.
C30_Witness ==
  /\ tool.asked /\ tool.q = 500
  /\ tool.latencies = <<1, 1, 2, 3, 4>>
  /\ tool.result = 2

\* ------------------------------------------------------------ emitter: further claims
\* The loops that have been launched.
Launched == {l \in Loops : loops[l].pc # "none"}

\* C31: a Start() that finds the emitter Stopped goes on to return true (it
\* holds the lock, so the emitter stays Stopped until it has acted), and when
\* it returns the emitter is Running, the start instant is the time of the
\* call, the stop channel is a new one, open, that replaces the earlier one,
\* and exactly one loop has been launched, the others being left as they were.
C31_StartWhileStopped ==
  /\ [][\A c \in Callers :
         (pc[c] = "idle" /\ pc'[c] \in {"StartSet", "StartDone"} /\ ~isRunning)
           => pc'[c] = "StartSet" /\ mu' = c]_vars
  /\ [](\A c \in Callers : pc[c] = "StartSet" => ~isRunning /\ mu = c)
  /\ [][\A c \in Callers :
         (pc[c] = "StartSet" /\ pc'[c] # "StartSet")
           => /\ pc'[c] = "StartDone"
              /\ ret'[c] = [ok |-> TRUE]
              /\ isRunning'
              /\ startTime' = now' /\ startTime' # ZeroTime
              /\ IF timed THEN startTime' >= startTime ELSE startTime' > startTime
              /\ stopChan' # NilChan /\ stopChan' # stopChan
              /\ stopChan' \notin closed' /\ stopChan' > nchan
              /\ stopChan = NilChan \/ stopChan \in closed
              /\ \E l \in Loops \ Launched :
                   /\ Launched' = Launched \cup {l}
                   /\ loops'[l].pc = "new"
                   /\ \A k \in Loops \ {l} : loops'[k] = loops[k]]_vars

\* C31 witness: after a run that was stopped, a second Start has returned
\* true: the emitter is Running on a second, open stop channel, the first one
\* is closed, and a second loop has been launched.
C31_Witness ==
  \E c \in Callers :
    /\ pc[c] = "StartDone" /\ ret[c] = [ok |-> TRUE]
    /\ hist.starts = 2 /\ hist.stops = 1
    /\ isRunning /\ stopChan = 2 /\ closed = {1}
    /\ loops[2].pc = "new"

\* The model makes no more than MaxCalls calls: a loop that has taken a tick
\* beyond them stays before its call.
Capped(l) ==
  /\ loops[l].pc = "send" /\ loops[l].reading.read = 0
  /\ totalSent + totalFailed + InFlight >= MaxCalls

\* C32: a tick taken by a loop is followed by exactly one call of the sink,
\* whether the ticker is kept or re-armed at that tick: from the tick the loop
\* goes to sendSingleReading (the re-arm step makes no call and counts
\* nothing), from there to the call, from the call to the count and from the
\* count back to the select, and it does reach the call; the periods asked
\* for are positive.
C32_OneCallPerTick ==
  /\ [][\A l \in Loops :
         /\ (loops[l].pc = "tick" /\ loops'[l] # loops[l])
              => /\ loops'[l].pc = "send" /\ loops'[l].reading.read = 0
                 /\ totalSent' = totalSent /\ totalFailed' = totalFailed
                 /\ loops'[l].currentFreq = frequency
         /\ (loops[l].pc = "send" /\ loops'[l].pc # "send") => loops'[l].pc = "call"
         /\ (loops[l].pc = "call" /\ loops'[l].pc # "call") => loops'[l].pc = "count"
         /\ (loops[l].pc = "count" /\ loops'[l].pc # "count") => loops'[l].pc = "select"
         /\ (loops[l].pc = "select" /\ loops'[l].pc # "select") => loops'[l].pc = "wait"
         /\ (loops[l].pc = "wait" /\ loops'[l].pc # "wait")
              => loops'[l].pc \in {"tick", "done"}]_vars
  /\ \A l \in Loops :
       (loops[l].pc = "tick") ~> (loops[l].pc = "call" \/ Capped(l))

\* C32 witness: the period was changed to 500 ms while the loop ran; at its
\* second tick the loop has re-armed its ticker and has that tick's call in
\* flight, the first tick's call being counted.
C32_Witness ==
  /\ hist.starts = 1
  /\ loops[1].pc = "call"
  /\ loops[1].ticker = 500 /\ loops[1].currentFreq = 500
  /\ frequency = 500
  /\ totalSent + totalFailed = 1

\* ------------------------------------------------------------ spam_unary tool: workers' claims
\* C33: a worker's append lengthens the latencies slice as it stands by the
\* duration of that worker's call, one worker at a time holding latMu, so
\* the slice never has more entries than calls were made; after the workers
\* are joined it has one entry per call made, as many as ok + fail, and as
\* many as -n when there is a worker at all.
C33_OneLatencyPerCall ==
  /\ [](tool.pc = "work" =>
          /\ Cardinality({i \in DOMAIN tool.w : tool.w[i].pc = "append"}) <= 1
          /\ Len(tool.latencies) <= tool.calls
          /\ tool.ok + tool.fail <= Len(tool.latencies))
  /\ [][(tool.pc = "work" /\ tool'.pc = "work"
           /\ tool'.latencies # tool.latencies)
          => \E i \in DOMAIN tool.w :
               /\ tool.w[i].pc = "append" /\ tool'.w[i].pc = "count"
               /\ tool'.latencies = Append(tool.latencies, tool.w[i].dur)]_vars
  /\ [](tool.pc = "sorted" =>
          /\ Len(tool.latencies) = tool.calls
          /\ Len(tool.latencies) = tool.ok + tool.fail
          /\ Len(tool.w) >= 1 => Len(tool.latencies) = tool.total)

\* C33 witness: two workers have made three calls between them, one of which
\* failed, and after the join the slice holds their three durations.
C33_Witness ==
  /\ tool.pc = "sorted" /\ Len(tool.w) = 2
  /\ tool.total = 3 /\ tool.calls = 3
  /\ tool.ok = 2 /\ tool.fail = 1
  /\ tool.latencies = <<1, 2, 4>>

\* ------------------------------------------------------------ bursts and the emitter
\* C34: no step of a burst changes the emitter's sent and failed counters,
\* and no step of an emission loop changes the burst; the burst's own ok and
\* fail grow only by one, when one of its own calls returns; and the result
\* carries those two, whatever the emitter's counters are.
C34_IndependentCounters ==
  /\ [][burst' # burst => UNCHANGED <<totalSent, totalFailed>>]_vars
  /\ [][loops' # loops => UNCHANGED burst]_vars
  /\ [][(burst.pc = "run" /\ burst'.pc = "run"
           /\ <<burst'.ok, burst'.fail>> # <<burst.ok, burst.fail>>)
          => /\ burst'.busy = burst.busy - 1
             /\ burst'.ok + burst'.fail = burst.ok + burst.fail + 1
             /\ burst'.ok >= burst.ok /\ burst'.fail >= burst.fail]_vars
  /\ [][\A c \in Callers :
         (pc[c] = "Spam" /\ pc'[c] = "SpamDone")
           => /\ ret'[c].successful = burst.ok
              /\ ret'[c].failed = burst.fail
              /\ burst.ok + burst.fail = burst.calls]_vars

\* C34 witness: a burst of one call has returned one success while the
\* running emitter has counted two failed calls of its loop and no sent one.
C34_Witness ==
  /\ pc[OpsCaller] = "SpamDone"
  /\ ret[OpsCaller].successful = 1 /\ ret[OpsCaller].failed = 0
  /\ isRunning
  /\ totalSent = 0 /\ totalFailed = 2

\* ------------------------------------------------------------ stats calls
StatsSteps == {"idle", "StatsFailed", "StatsDone", "DetailedFailed",
               "DetailedRead", "DetailedDone"}

\* C35: no step of GetStats or GetDetailedStats changes the running state,
\* the start instant, the period, the payload, the stop channel, the
\* counters, the lock, the channels or the loops, while another client calls
\* Start, Stop and SetFrequency; a stats call waits for nothing but the
\* lock in its read section, and every call that has begun returns.
C35_StatsReadOnly ==
  /\ [][\A c \in Callers :
         (pc'[c] # pc[c] /\ pc[c] \in StatsSteps /\ pc'[c] \in StatsSteps
            /\ pc'[c] # "idle")
           => UNCHANGED <<dgVars, rtVars, loops, hist>>]_vars
  /\ [](pc[StatsCaller] = "StatsFailed" => ENABLED GetStatsFailed(StatsCaller))
  /\ [](pc[StatsCaller] = "DetailedFailed" => ENABLED DetailedFailed(StatsCaller))
  /\ [](pc[StatsCaller] = "DetailedRead" =>
          \/ ENABLED DetailedRead(StatsCaller)
          \/ mu = OtherCaller /\ (ENABLED StartSet(OtherCaller)
                                    \/ ENABLED StopSet(OtherCaller)))
  /\ (pc[StatsCaller] = "StatsFailed") ~> (pc[StatsCaller] = "StatsDone")
  /\ (pc[StatsCaller] \in {"DetailedFailed", "DetailedRead"})
       ~> (pc[StatsCaller] = "DetailedDone")

\* C35 witness: GetDetailedStats has returned beside the other client's
\* Start: it reports the emitter as Running with no call counted, and the
\* emitter is as the Start left it.
C35_Witness ==
  /\ pc[StatsCaller] = "DetailedDone"
  /\ ret[StatsCaller].Is_Running /\ ret[StatsCaller].Total_Requests = 0
  /\ pc[OtherCaller] = "StartDone" /\ ret[OtherCaller] = [ok |-> TRUE]
  /\ isRunning /\ hist.starts = 1 /\ mu = NoOne

\* ------------------------------------------------------------ Stop and the call in flight
\* C36: no step of Stop changes a loop or a counter, so a call in flight is
\* left in flight; Stop, once past its test, can always take its second step
\* and does return; and a call in flight, before or after a Stop, returns
\* and is counted, once (the count rises by the one step that takes the loop
\* from its call back to the select).
C36_StopLeavesCall ==
  /\ [][\A c \in Callers :
         (pc'[c] # pc[c] /\ pc'[c] \in {"StopSet", "StopDone"})
           => UNCHANGED <<loops, totalSent, totalFailed>>]_vars
  /\ [](\A c \in Callers : pc[c] = "StopSet" => ENABLED StopSet(c))
  /\ (pc[OpsCaller] = "StopSet") ~> (pc[OpsCaller] = "StopDone")
  /\ [][\A l \in Loops :
         (loops[l].pc = "call" /\ loops'[l] # loops[l])
           => loops'[l].pc = "count" /\ loops'[l].err \in CallOutcomes]_vars
  /\ [][\A l \in Loops :
         (loops[l].pc = "count" /\ loops'[l] # loops[l])
           => totalSent' + totalFailed' = totalSent + totalFailed + 1]_vars
  /\ \A l \in Loops : \A n \in 0..(MaxCalls - 1) :
       (loops[l].pc = "call" /\ ~isRunning /\ totalSent + totalFailed = n)
         ~> (loops[l].pc # "call" /\ totalSent + totalFailed > n)

\* C36 witness: Stop has returned true while the call of the loop is still
\* in flight.
C36_Witness ==
  /\ pc[OpsCaller] = "StopDone" /\ ret[OpsCaller] = [ok |-> TRUE]
  /\ ~isRunning /\ hist.stops = 1 /\ closed = {1}
  /\ loops[1].pc = "call"
  /\ totalSent + totalFailed = 0

\* ------------------------------------------------------------ Start and Stop in turn
\* C37: a Start returns true only when as many Stops as Starts have returned
\* true before it, a Stop returns true only when one more Start than Stops
\* has, so the calls that return true alternate, a Start first; the emitter
\* is Running exactly when the Starts that returned true are one more than
\* the Stops that did, Stopped exactly when they are as many, and IsRunning()
\* returns true in the first case and false in the second.
C37_Alternate ==
  /\ [][\A c \in Callers :
         (pc'[c] = "StartDone" /\ pc[c] # "StartDone" /\ ret'[c] = [ok |-> TRUE])
           => /\ hist.starts = hist.stops
              /\ hist' = [hist EXCEPT !.starts = @ + 1]]_vars
  /\ [][\A c \in Callers :
         (pc'[c] = "StopDone" /\ pc[c] # "StopDone" /\ ret'[c] = [ok |-> TRUE])
           => /\ hist.starts = hist.stops + 1
              /\ hist' = [hist EXCEPT !.stops = @ + 1]]_vars
  /\ [][hist' # hist
         => \E c \in Callers :
              /\ pc'[c] \in {"StartDone", "StopDone"} /\ pc[c] # pc'[c]
              /\ ret'[c] = [ok |-> TRUE]]_vars
  /\ [](isRunning <=> hist.starts = hist.stops + 1)
  /\ [](~isRunning <=> hist.starts = hist.stops)
  /\ [][\A c \in Callers :
         (pc'[c] = "IsRunningDone" /\ pc[c] # "IsRunningDone")
           => ret'[c] = [ok |-> (hist.starts = hist.stops + 1)]]_vars

\* C37 witness: after a Start, a Stop and a second Start that returned true,
\* one client holds the true of that Start and the other the true of
\* IsRunning().
C37_Witness ==
  \E c1, c2 \in Callers :
    /\ pc[c1] = "StartDone" /\ ret[c1] = [ok |-> TRUE]
    /\ pc[c2] = "IsRunningDone" /\ ret[c2] = [ok |-> TRUE]
    /\ hist.starts = 2 /\ hist.stops = 1

\* ------------------------------------------------------------ the stop channel
\* C38: while the emitter is Running its stop channel is made and open; a
\* Stop past its test finds it so; a channel is closed only by a Stop, one at
\* a step, and the channel closed is the open one made by the latest Start
\* that returned true; only made channels are ever closed, and no
\* interleaving of Starts and Stops ends in the panic of a close of a nil or
\* closed channel.
C38_CloseOnce ==
  /\ [](isRunning => stopChan # NilChan /\ stopChan \notin closed)
  /\ [](\A c \in Callers :
          pc[c] = "StopSet" => isRunning /\ stopChan # NilChan /\ stopChan \notin closed)
  /\ [][closed' # closed
         => /\ \E c \in Callers : pc[c] = "StopSet" /\ pc'[c] = "StopDone"
            /\ stopChan # NilChan /\ stopChan \notin closed
            /\ stopChan = nchan /\ nchan = hist.starts
            /\ closed' = closed \cup {stopChan}]_vars
  /\ [](closed \subseteq 1..nchan /\ NilChan \notin closed)
  /\ []~crashed

\* C38 witness: two Stops raced on the emitter after its second Start; one
\* closed the second channel and holds true, the other holds false, and both
\* channels are closed once.
C38_Witness ==
  \E c1, c2 \in Callers :
    /\ pc[c1] = "StopDone" /\ ret[c1] = [ok |-> TRUE]
    /\ pc[c2] = "StopDone" /\ ret[c2] = [ok |-> FALSE]
    /\ hist.starts = 2 /\ hist.stops = 2
    /\ closed = {1, 2} /\ stopChan = 2

\* ------------------------------------------------------------ the lock and the call
\* C39: no step of a launched loop leaves dg.mu taken or released, and while a
\* call of a loop is in flight dg.mu is free or held by a client inside
\* Start or Stop; so, call in flight or not, whenever no client holds dg.mu
\* a client about to call Start, Stop, SetFrequency or Config, or waiting in
\* IsRunning or GetDetailedStats for the read lock, can take its step; and
\* a client that holds dg.mu can always take the step that releases it, so
\* no state is a deadlock of clients and loops.
C39_NoLockInCall ==
  /\ [][\A l \in Launched : loops'[l] # loops[l] => mu' = mu]_vars
  /\ []((\E l \in Loops : loops[l].pc = "call")
          => \/ mu = NoOne
             \/ mu \in Callers /\ pc[mu] \in {"StartSet", "StopSet"})
  /\ [](\A c \in Callers :
          (~crashed /\ mu = NoOne /\ pc[c] = "idle")
            => /\ ENABLED StopLock(c)
               /\ (isRunning \/ nchan < MaxStarts) => ENABLED StartLock(c)
               /\ \A s \in OpsDurations : ENABLED RouterSetFrequency(c, s)
               /\ \A config \in OpsConfigs : ENABLED Config(c, config))
  /\ [](\A c \in Callers :
          (~crashed /\ mu = NoOne)
            => /\ pc[c] = "IsRunning" => ENABLED IsRunning(c)
               /\ pc[c] = "DetailedRead" => ENABLED DetailedRead(c))
  /\ [](mu # NoOne
          => /\ mu \in Callers
             /\ ~crashed => ENABLED (StartSet(mu) \/ StopSet(mu)))

\* C39 witness: the call of the loop is in flight while one client is inside
\* Stop, holding the lock, and the other waits in IsRunning for it.
C39_Witness ==
  /\ loops[1].pc = "call"
  /\ mu = OtherCaller /\ pc[OtherCaller] = "StopSet"
  /\ pc[StatsCaller] = "IsRunning"
  /\ isRunning /\ ~crashed

\* ------------------------------------------------------------ the order of the responses
\* The responses in the order pi of their indices.
Reordered(pi) == [i \in 1..Len(fleet.responses) |-> fleet.responses[pi[i]]]

Orders == Permutations(1..Len(fleet.responses))

\* Every value of the responses is a whole number below Limb: the sum of any
\* of them is below 2^53 and no addition of the fold rounds, in any order.
SumsExact ==
  \A i \in 1..Len(fleet.responses) : fleet.responses[i].Data.TotalRequests.hi = 0

\* C40, as stated: the aggregate printed by a stats run is the aggregate of
\* its responses taken in any other order, Avg and Total included.
C40_AnyOrder ==
  fleet.out.aggregated
    => \A pi \in Orders : aggregateFloat64Stats(Reordered(pi)) = fleet.out.agg

\* C40, amended: in any other order of the responses of a stats run Min, Max
\* and the running and total counts are those printed; Avg and Total are
\* those printed whenever the values are whole numbers so small that
\* float64 holds every sum of the fold exactly.
C40_AnyOrderExact ==
  fleet.out.aggregated
    => \A pi \in Orders :
         LET agg == aggregateFloat64Stats(Reordered(pi))
         IN  /\ agg.Min = fleet.out.agg.Min
             /\ agg.Max = fleet.out.agg.Max
             /\ agg.IsRunning = fleet.out.agg.IsRunning
             /\ agg.Avg.den = fleet.out.agg.Avg.den
             /\ SumsExact => /\ agg.Avg = fleet.out.agg.Avg
                             /\ agg.Total = fleet.out.agg.Total

\* C40 witness: three endpoints answered 3, 1 and 1, the largest value
\* first: Min is 1, Max 3, Total 5, Avg 5/3, and two of the three run.
C40_Witness ==
  /\ fleet.out.aggregated /\ fleet.out.count = 3
  /\ fleet.responses[1].Data.TotalRequests = [hi |-> 0, lo |-> 3]
  /\ fleet.out.agg.Min = [hi |-> 0, lo |-> 1]
  /\ fleet.out.agg.Max = [hi |-> 0, lo |-> 3]
  /\ fleet.out.agg.Total = [hi |-> 0, lo |-> 5]
  /\ fleet.out.agg.Avg = [num |-> [hi |-> 0, lo |-> 5], den |-> 3]
  /\ fleet.out.agg.IsRunning = [Running |-> 2, Total |-> 3]

====
